---- MODULE Spec2Model ----
(***************************************************************************)
(* Non-custodial signing-authorization core of vencura.                    *)
(*                                                                         *)
(* One signing request at a time travels                                   *)
(*   router (wallet.signMessage / wallet.sendTransaction /                 *)
(*           transactionProposal.approve)                                  *)
(*     -> lib/lit/service.ts (signMessage / signTransaction, signWithPkp)  *)
(*     -> either the remote verify-and-sign Lit Action (actions/verifyJwt) *)
(*        or the hybrid server-side check followed by pkpSign              *)
(*     -> signature assembly -> caller.                                    *)
(*                                                                         *)
(* Two further parts share the wallet row with it:                         *)
(*   - the wallet life cycle (wallet.create with mintPKP, wallet.update,   *)
(*     wallet.migrateToJwtAuth, invitation accept, role update), run by    *)
(*     concurrent requests (LifeSpec);                                     *)
(*   - the lazily created signing-network client of lib/lit/client.ts,     *)
(*     asked for by concurrent callers (ClientSpec).                       *)
(***************************************************************************)
EXTENDS Integers, Sequences, FiniteSets, TLC

VARIABLES
    pc,          \* position of the request in flight
    req,         \* the request: entry point, caller, credential, authorization id, mode
    wallet,      \* the wallet row: ownerId, authMethodId, accessList
    proposal,    \* the transaction proposal row: status, reviewerId, txHash
    jwks,        \* what the executor's JWKS fetch returned in this run
    matchingKey, \* the verification key the executor selected
    trace,       \* executor steps that succeeded in this run, in order
    signCalls,   \* number of times Lit.Actions.signEcdsa / pkpSign was invoked in this run
    sigShare,    \* the raw threshold signature obtained in this run (or NoRaw)
    response,    \* the Lit Action response (Lit.Actions.setResponse)
    svc,         \* outcome of litService.signMessage / signTransaction
    out,         \* outcome of the router procedure
    proc,        \* the wallet life-cycle requests in flight: position, locals, outcome
    chain,       \* the signing network's record of the key-share sets (PKPs)
    db,          \* rows other than the wallet: wallets created, the invitation
    litNodeClient, \* the module variable of lib/lit/client.ts (0 is null)
    clients,     \* the LitNodeClient objects constructed so far, with their connection state
    caller,      \* the callers of getLitClient: position, own client, what they were handed
    reviews,     \* the requests to approve / reject / cancel: position, locals, outcome
    txProposal,  \* the proposal row under review: status, reviewerId, reviewedAt, txHash, expiresAt
    txCount,     \* the wallet account's transaction count on the chain (its next nonce)
    clientCache, \* the wallet addresses with a cached XMTP client
    clientLastUsed, \* the Map of last-use times, as its entries in Map order
    dateNow      \* Date.now() of the XMTP module

signVars == <<pc, req, proposal, jwks, matchingKey, trace, signCalls, sigShare, response, svc, out>>
lifeVars == <<proc, chain, db>>
clientVars == <<litNodeClient, clients, caller>>
proposalVars == <<reviews, txProposal, txCount>>
xmtpVars == <<clientCache, clientLastUsed, dateNow>>

vars == <<pc, req, wallet, proposal, jwks, matchingKey, trace, signCalls,
          sigShare, response, svc, out, proc, chain, db, litNodeClient, clients, caller,
          reviews, txProposal, txCount, clientCache, clientLastUsed, dateNow>>

----------------------------------------------------------------------------
(* Bounds of the model *)

\* current time, seconds since the epoch (Math.floor(Date.now() / 1000))
Now == 100000

\* length, in hex digits, of r and of s in a complete raw signature
HexLen == 64

\* an absent JSON field (undefined)
Absent == -1

----------------------------------------------------------------------------
(* Strings: e-mail addresses, hex strings *)

NonString == "<number>"       \* an email claim that is a JSON number or object
Emails == {"", "alice@x.com", "ALICE@X.COM", "bob@x.com", "carol@x.com", NonString}

\* String.prototype.toLowerCase on the e-mail addresses of the model
toLowerCase(e) == IF e = "ALICE@X.COM" THEN "alice@x.com" ELSE e

\* keccak256 is modelled as an injective function of its input bytes; an id is
\* the hex string of that hash, written in lower or in upper case
keccak256(bytes) == [of |-> bytes, upper |-> FALSE]

\* String.prototype.toLowerCase on an authorization id
idToLowerCase(id) == [id EXCEPT !.upper = FALSE]

NoId == [of |-> "", upper |-> FALSE]     \* the empty string / null authMethodId

\* the hash taken of the email as given, the toLowerCase() left out
computeAuthMethodId_CaseSensitive(userEmail) == keccak256(userEmail)

\* computeAuthMethodId (lib/lit/service.ts): keccak256(toBytes(userEmail.toLowerCase()))
computeAuthMethodId(userEmail) == keccak256(toLowerCase(userEmail))

AuthIds == {NoId,
            [of |-> "alice@x.com", upper |-> FALSE],
            [of |-> "alice@x.com", upper |-> TRUE],
            [of |-> "bob@x.com", upper |-> FALSE]}

Rep(n, c) == [i \in 1..n |-> c]

HexDigit(d) == SubSeq(<<"0","1","2","3","4","5","6","7","8","9","a","b","c","d","e","f">>, d + 1, d + 1)

\* Number.prototype.toString(16) for n >= 0
RECURSIVE toString16(_)
toString16(n) == IF n < 16 THEN HexDigit(n) ELSE toString16(n \div 16) \o HexDigit(n % 16)

\* String.prototype.padStart(len, c)
padStart(str, len, c) == IF Len(str) >= len THEN str ELSE Rep(len - Len(str), c) \o str

startsWith0x(str) == Len(str) >= 2 /\ SubSeq(str, 1, 2) = <<"0", "x">>

\* String.prototype.slice(from, to) with 0 <= from <= to
slice(str, from, to) ==
    LET hi == IF to > Len(str) THEN Len(str) ELSE to
    IN IF from >= hi THEN <<>> ELSE SubSeq(str, from + 1, hi)

----------------------------------------------------------------------------
(* The identity credential (JWT), as the three decoded segments *)

AbsentStr == "<undefined>"    \* an absent JSON string field

\* seconds in the staleness window of the iat check
STALE == 86400

Algs == {"RS256", "HS256", AbsentStr}
Kids == {AbsentStr, "k1", "k9"}
ExpTimes == {Absent, 0, Now - 1, Now, Now + 1}
NbfTimes == {Absent, Now, Now + 1}
IatTimes == {Absent, 0, Now - STALE - 1, Now - STALE, Now + 1}

\* the key of the issuer that signed the token; "forged" is a signature made
\* with a key the issuer does not publish
Signers == {"k1", "forged"}

\* well-formed three-segment RS256 tokens of the wallet owner: every
\* combination of the time claims, signed by the issuer or forged
ClaimTokens ==
    [parts : {3}, header : {"ok"}, payload : {"ok"}, alg : {"RS256"}, kid : {AbsentStr},
     email : {"alice@x.com"}, exp : ExpTimes, nbf : NbfTimes, iat : IatTimes,
     iss : {"env1"}, signedBy : Signers]

\* tokens that vary the subject and the header algorithm, fresh or expired
SubjectTokens ==
    [parts : {3}, header : {"ok"}, payload : {"ok"}, alg : Algs, kid : {AbsentStr},
     email : Emails, exp : {Now - 1, Now + 1}, nbf : {Absent}, iat : {Now - STALE},
     iss : {"env1"}, signedBy : Signers]

\* tokens that vary the header key id and the issuer claim around valid claims
HeaderTokens ==
    [parts : {3}, header : {"ok"}, payload : {"ok"}, alg : {"RS256"}, kid : Kids,
     email : {"alice@x.com"}, exp : {Now + 1}, nbf : {Absent}, iat : {Now - STALE},
     iss : {AbsentStr, "env1", "evil"}, signedBy : {"k1", "k3", "forged"}]

\* malformed tokens: the empty string, a wrong number of segments, a segment
\* that does not decode to JSON ("bad") or decodes to the JSON value null
MalformedTokens ==
    [parts : {0, 1, 2, 4}, header : {"ok"}, payload : {"ok"}, alg : {"RS256"}, kid : {AbsentStr},
     email : {"alice@x.com"}, exp : {Now + 1}, nbf : {Absent}, iat : {Now - STALE},
     iss : {"env1"}, signedBy : {"k1"}]
    \cup
    [parts : {3}, header : {"ok", "bad", "null"}, payload : {"ok", "bad", "null"},
     alg : {"RS256"}, kid : {AbsentStr},
     email : {"alice@x.com"}, exp : {Now + 1}, nbf : {Absent}, iat : {Now - STALE},
     iss : {"env1"}, signedBy : {"k1"}]

\* three segments of which one is the empty string ("a..c", "a.b.", ".b.c"):
\* an empty header or payload segment, or an empty signature segment
EmptySegmentTokens ==
    {[parts |-> 3, header |-> hp[1], payload |-> hp[2], alg |-> "RS256", kid |-> AbsentStr,
      email |-> "alice@x.com", exp |-> Now + 1, nbf |-> Absent, iat |-> Now - STALE,
      iss |-> "env1", signedBy |-> hp[3]] :
        hp \in {<<"empty", "ok", "k1">>, <<"ok", "empty", "k1">>, <<"ok", "ok", "empty">>}}

Jwts == ClaimTokens \cup SubjectTokens \cup HeaderTokens \cup MalformedTokens
          \cup EmptySegmentTokens

\* atob and JSON.parse of a segment throw: the segment is not base64 of JSON
\* ("bad") or is the empty string (JSON.parse("") throws)
Undecodable(segment) == segment \in {"bad", "empty"}

\* JavaScript truthiness of an optional numeric claim: undefined and 0 are falsy
Truthy(x) == x # Absent /\ x # 0

\* JavaScript truthiness of an optional string
TruthyStr(x) == x # AbsentStr /\ x # ""

----------------------------------------------------------------------------
(* The issuer key sets the JWKS endpoint can answer with *)

K1 == [kid |-> "k1", use |-> "sig"]
K2 == [kid |-> "k2", use |-> "enc"]
K3 == [kid |-> "k3", use |-> "sig"]
NoKey == [kid |-> AbsentStr, use |-> AbsentStr]

FetchFailed == <<[kid |-> "fetch-failed", use |-> AbsentStr]>>
NotFetched == <<[kid |-> "not-fetched", use |-> AbsentStr]>>

\* the key set the issuer publishes
IssuerJwks == <<K2, K1, K3>>

JwksAnswers == {<<>>, <<K1>>, <<K2, K1>>, IssuerJwks}

KEvil == [kid |-> "forged", use |-> "sig"]

\* what GET https://app.dynamic.xyz/api/v0/sdk/{envId}/.well-known/jwks can
\* answer: the issuer's environment publishes the issuer's keys, any other
\* environment publishes keys of whoever registered it
EndpointAnswers(envId) ==
    IF envId = "env1" THEN JwksAnswers \cup {FetchFailed} ELSE {<<KEvil>>, FetchFailed}

----------------------------------------------------------------------------
(* Raw threshold signatures, as the signing network returns them *)

RHex == Rep(HexLen, "a")
SHex == Rep(HexLen, "b")
Prefix0x == <<"0", "x">>

NoRaw == [present |-> FALSE, signature |-> <<>>, r |-> <<>>, s |-> <<>>,
          recid |-> Absent, recoveryId |-> Absent]

\* v8 shape: { signature: "0x{r}{s}", recoveryId }
ConcatRaws ==
    [present : {TRUE}, signature : {Prefix0x \o RHex \o SHex},
     r : {<<>>}, s : {<<>>}, recid : {Absent}, recoveryId : {Absent, 0, 1}]
    \cup
    [present : {TRUE}, signature : {RHex \o SHex, SubSeq(RHex, 1, HexLen - 2) \o SHex},
     r : {<<>>}, s : {<<>>}, recid : {Absent}, recoveryId : {1}]

\* v7 shape: { r, s, recid }
SplitRaws ==
    [present : {TRUE}, signature : {<<>>}, r : {RHex}, s : {SHex},
     recid : {Absent, 0, 1}, recoveryId : {Absent}]
    \cup
    [present : {TRUE}, signature : {<<>>}, r : {Prefix0x \o RHex}, s : {Prefix0x \o SHex},
     recid : {0}, recoveryId : {Absent}]

\* a signature object with none of the recognised fields
UnknownRaw == [NoRaw EXCEPT !.present = TRUE]

RawSigs == ConcatRaws \cup SplitRaws \cup {UnknownRaw}

----------------------------------------------------------------------------
(* The remote verify-and-sign executor (JWT_VERIFY_AND_SIGN_LIT_ACTION_CODE),
   one operator per section of the action *)

NoResponse == [set |-> FALSE, success |-> FALSE, error |-> "", email |-> ""]
Failure(err) == [set |-> TRUE, success |-> FALSE, error |-> err, email |-> ""]
Success(email) == [set |-> TRUE, success |-> TRUE, error |-> "", email |-> email]

\* 1. VALIDATE INPUTS; "ok" when every jsParam is present
LitInputsError(p) ==
    IF p.jwt.parts = 0 THEN "No JWT provided"
    ELSE IF p.authId = NoId THEN "No expectedAuthMethodId provided"
    ELSE IF ~p.toSignIsArray THEN "Invalid toSign data"
    ELSE IF p.publicKey = "" THEN "No publicKey provided"
    ELSE "ok"

\* 2. PARSE JWT
LitParseError(jwt) ==
    IF jwt.parts # 3 THEN "Invalid JWT format"
    ELSE IF Undecodable(jwt.header) THEN "Failed to decode JWT header"
    ELSE IF Undecodable(jwt.payload) THEN "Failed to decode JWT payload"
    ELSE "ok"

\* 3. the environment whose JWKS is fetched:
\*    dynamicEnvironmentId || payload.iss?.split("/").pop()
\*    ("throw" when payload is null and the configured id is empty)
LitEnvId(p) ==
    IF TruthyStr(p.dynamicEnvironmentId) THEN p.dynamicEnvironmentId
    ELSE IF p.jwt.payload = "null" THEN "throw"
    ELSE p.jwt.iss

\* 4. the key-selection loop: the first key whose kid is the header's kid, or,
\*    when the header has no kid, the first key with use = "sig"
RECURSIVE FindMatchingKey(_, _)
FindMatchingKey(keys, kid) ==
    IF keys = <<>> THEN NoKey
    ELSE IF Head(keys).kid = kid \/ (~TruthyStr(kid) /\ Head(keys).use = "sig") THEN Head(keys)
    ELSE FindMatchingKey(Tail(keys), kid)

\* ... falling back to the first key of the set
SelectKey(keys, kid) ==
    LET found == FindMatchingKey(keys, kid)
    IN IF found # NoKey THEN found ELSE IF keys # <<>> THEN keys[1] ELSE NoKey

\* const alg = header.alg || "RS256"
HeaderAlg(jwt) == IF TruthyStr(jwt.alg) THEN jwt.alg ELSE "RS256"

\* crypto.subtle.verify: the signature verifies under the key that made it
SignatureValid(jwt, key) == key.kid = jwt.signedBy

\* 5. VERIFY JWT CLAIMS; "ok" when no check rejects
LitClaimsError(jwt, now) ==
    IF ~TruthyStr(jwt.email) THEN "No email in JWT"
    ELSE IF Truthy(jwt.exp) /\ jwt.exp < now THEN "JWT expired"
    ELSE IF Truthy(jwt.nbf) /\ jwt.nbf > now THEN "JWT not yet valid"
    ELSE IF Truthy(jwt.iat) /\ (now - jwt.iat) > STALE THEN "JWT too old"
    ELSE "ok"

\* the comparison of section 6 inverted: === written for !==
LitAuthMethodIdMatches_Inverted(email, expectedAuthMethodId) ==
    idToLowerCase(keccak256(toLowerCase(email))) # idToLowerCase(expectedAuthMethodId)

\* 6. VERIFY AUTH METHOD ID
LitAuthMethodIdMatches(email, expectedAuthMethodId) ==
    idToLowerCase(keccak256(toLowerCase(email))) = idToLowerCase(expectedAuthMethodId)

----------------------------------------------------------------------------
(* Requests *)

Modes == {"remote", "local"}     \* USE_LIT_ACTION_SIGNING = true / false

Users == Emails \ {"", NonString}

PkpPublicKey == "0x04pkp"

NoJwt == [parts |-> 0, header |-> "ok", payload |-> "ok", alg |-> AbsentStr, kid |-> AbsentStr,
          email |-> "", exp |-> Absent, nbf |-> Absent, iat |-> Absent,
          iss |-> AbsentStr, signedBy |-> "forged"]

NoReq == [entry |-> "none", caller |-> "", jwt |-> NoJwt, authId |-> NoId, mode |-> "remote",
          dynamicEnvironmentId |-> "", toSignIsArray |-> TRUE, publicKey |-> ""]

\* process.env.NEXT_PUBLIC_DYNAMIC_ENVIRONMENT_ID || "" : the configurations the
\* model runs a token under
EnvsFor(jwt) == IF jwt \in HeaderTokens \cup MalformedTokens THEN {"", "env1"} ELSE {"env1"}

NoSvc == [kind |-> "none", signature |-> <<>>, error |-> "", detail |-> "",
          r |-> <<>>, s |-> <<>>, v |-> Absent, chainId |-> Absent]

\* an Error thrown out of signMessage / signTransaction
SvcError(msg) == [NoSvc EXCEPT !.kind = "error", !.error = msg]

RouterEntries == {"wallet.signMessage", "wallet.sendTransaction", "proposal.approve"}
NoOut == [kind |-> "none", code |-> "", message |-> "", detail |-> "", broadcast |-> FALSE]

\* a TRPCError thrown by a procedure
TrpcError(code, message) == [NoOut EXCEPT !.kind = "error", !.code = code, !.message = message]

\* the wallet row "w1" as wallet.create stores it, with the access rows of
\* the users it is shared with
MigratedWallet ==
    [ownerId |-> "alice@x.com",
     name |-> "main",
     authMethodId |-> computeAuthMethodId("alice@x.com"),
     pkpPublicKey |-> PkpPublicKey,
     accessList |-> [u \in Users |->
                       IF u = "bob@x.com" THEN "FULL_ACCESS"
                       ELSE IF u = "carol@x.com" THEN "CO_SIGNER"
                       ELSE "NONE"]]

\* a wallet row from before wallet.create stored an authMethodId
LegacyWallet == [MigratedWallet EXCEPT !.authMethodId = NoId]

Procs == {"p1", "p2"}
Callers == {"c1", "c2", "c3"}

NoProc == [pc |-> "idle", op |-> "", user |-> "", authMethodId |-> NoId, name |-> "",
           minted |-> FALSE, threwAt |-> "", out |-> NoOut]
NoCaller == [pc |-> "idle", mine |-> 0, got |-> 0, gotState |-> "", error |-> ""]

\* no life-cycle request in flight: nothing minted by this server, the
\* invitation of "ALICE@X.COM" to the wallet pending
LifeIdle ==
    /\ proc = [p \in Procs |-> NoProc]
    /\ chain = [minted |-> 0, permittedAddress |-> 0, authMethods |-> {}]
    /\ db = [created |-> {},
             invitation |-> [inviteeEmail |-> "ALICE@X.COM", role |-> "FULL_ACCESS",
                             status |-> "PENDING"]]

\* let litNodeClient = null, and no caller of getLitClient
ClientIdle ==
    /\ litNodeClient = 0
    /\ clients = <<>>
    /\ caller = [c \in Callers |-> NoCaller]

Reviewers == {"r1", "r2", "r3"}

\* the callers of approve, reject and cancel: the wallet's owner and the proposer
ReviewUsers == {"alice@x.com", "carol@x.com"}

Proposer == "carol@x.com"

NoReview == [pc |-> "idle", op |-> "", user |-> "", nonce |-> Absent, threwAt |-> "", out |-> NoOut]

\* the proposal "p1" as transactionProposal.create stores it, no review request
\* yet, no transaction of the wallet's account on the chain
ProposalIdle ==
    /\ reviews = [r \in Reviewers |-> NoReview]
    /\ txProposal = [status |-> "PENDING", reviewerId |-> "", reviewedAt |-> "", txHash |-> "",
                     expiresAt |-> "future"]
    /\ txCount = 0

\* const clientCache = new Map(), const clientLastUsed = new Map()
XmtpIdle ==
    /\ clientCache = {}
    /\ clientLastUsed = <<>>
    /\ dateNow = 0

\* no signing request yet
SignIdle ==
    /\ pc = "idle"
    /\ req = NoReq
    /\ proposal = [status |-> "PENDING", reviewerId |-> "", txHash |-> ""]
    /\ jwks = NotFetched
    /\ matchingKey = NoKey
    /\ trace = <<>>
    /\ signCalls = 0
    /\ sigShare = NoRaw
    /\ response = NoResponse
    /\ svc = NoSvc
    /\ out = NoOut

Init ==
    /\ SignIdle
    /\ wallet = MigratedWallet
    /\ LifeIdle
    /\ ClientIdle
    /\ ProposalIdle
    /\ XmtpIdle

\* the requests litService is called with directly: every token with the
\* owner's id, the subject tokens with every id
ServiceCalls ==
    ({"signMessage"} \X Jwts \X {computeAuthMethodId("alice@x.com")})
    \cup ({"signMessage", "signTransaction"} \X SubjectTokens \X AuthIds)

\* litService.signMessage / litService.signTransaction called directly:
\* the digest is computed and signWithPkp is entered
CallService ==
    /\ pc = "idle"
    /\ \E call \in ServiceCalls, mode \in Modes :
         \E env \in EnvsFor(call[2]) :
           req' = [entry |-> call[1], caller |-> "", jwt |-> call[2], authId |-> call[3],
                   mode |-> mode, dynamicEnvironmentId |-> env, toSignIsArray |-> TRUE,
                   publicKey |-> PkpPublicKey]
    /\ pc' = "signWithPkp"
    /\ UNCHANGED <<wallet, proposal, jwks, matchingKey, trace, signCalls, sigShare, response, svc, out>>
    /\ UNCHANGED <<lifeVars, clientVars, proposalVars, xmtpVars>>

----------------------------------------------------------------------------
(* signWithLitAction up to executeJs, and the Lit Action itself *)

\* where the result of signMessage / signTransaction goes
AfterService == IF req.entry \in RouterEntries THEN "router_finish" ELSE "done"

LitFail(err) ==
    /\ response' = Failure(err)
    /\ pc' = "lit_end"

LitStep(name, next) ==
    /\ trace' = Append(trace, name)
    /\ pc' = next
    /\ UNCHANGED response

\* getLitClient(), createEoaAuthContext() or executeJs() throws: the signing
\* network is unreachable
LitUnavailable ==
    /\ pc = "signWithPkp"
    /\ req.mode = "remote"
    /\ svc' = SvcError("Lit network unavailable")
    /\ pc' = AfterService
    /\ UNCHANGED <<req, wallet, proposal, jwks, matchingKey, trace, signCalls, sigShare, response, out>>
    /\ UNCHANGED <<lifeVars, clientVars, proposalVars, xmtpVars>>

\* executeJs starts the action; section 1 validates the jsParams
\* (jwt.split throws into the outer catch when jwt is not a string: not modelled,
\* the service always passes a string)
LitValidateInputs ==
    /\ pc = "signWithPkp"
    /\ req.mode = "remote"
    /\ IF LitInputsError(req) # "ok"
       THEN LitFail(LitInputsError(req)) /\ UNCHANGED trace
       ELSE LitStep("inputs", "lit_parse")
    /\ UNCHANGED <<req, wallet, proposal, jwks, matchingKey, signCalls, sigShare, svc, out>>
    /\ UNCHANGED <<lifeVars, clientVars, proposalVars, xmtpVars>>

LitParseJwt ==
    /\ pc = "lit_parse"
    /\ IF LitParseError(req.jwt) # "ok"
       THEN LitFail(LitParseError(req.jwt)) /\ UNCHANGED trace
       ELSE LitStep("parse", "lit_fetch")
    /\ UNCHANGED <<req, wallet, proposal, jwks, matchingKey, signCalls, sigShare, svc, out>>
    /\ UNCHANGED <<lifeVars, clientVars, proposalVars, xmtpVars>>

LitFetchJwks ==
    /\ pc = "lit_fetch"
    /\ LET envId == LitEnvId(req)
       IN IF envId = "throw"
          THEN LitFail("Lit Action error") /\ UNCHANGED <<trace, jwks>>
          ELSE IF ~TruthyStr(envId)
          THEN LitFail("Could not determine Dynamic environment ID") /\ UNCHANGED <<trace, jwks>>
          ELSE \E answer \in EndpointAnswers(envId) :
                 /\ jwks' = answer
                 /\ IF answer = FetchFailed
                    THEN LitFail("Failed to fetch JWKS for JWT verification") /\ UNCHANGED trace
                    ELSE LitStep("fetch", "lit_key")
    /\ UNCHANGED <<req, wallet, proposal, matchingKey, signCalls, sigShare, svc, out>>
    /\ UNCHANGED <<lifeVars, clientVars, proposalVars, xmtpVars>>

\* section 4 up to the algorithm check: key set not empty, header.kid read,
\* key selected, algorithm accepted
LitSelectKey ==
    /\ pc = "lit_key"
    /\ IF jwks = <<>>
       THEN LitFail("No keys found in JWKS response") /\ UNCHANGED <<trace, matchingKey>>
       ELSE IF req.jwt.header = "null"
       THEN LitFail("Lit Action error") /\ UNCHANGED <<trace, matchingKey>>
       ELSE LET key == SelectKey(jwks, req.jwt.kid)
            IN /\ matchingKey' = key
               /\ IF key = NoKey
                  THEN LitFail("No suitable signing key found in JWKS") /\ UNCHANGED trace
                  ELSE IF HeaderAlg(req.jwt) # "RS256"
                  THEN LitFail("Unsupported JWT algorithm") /\ UNCHANGED trace
                  ELSE LitStep("key", "lit_verify")
    /\ UNCHANGED <<req, wallet, proposal, jwks, signCalls, sigShare, svc, out>>
    /\ UNCHANGED <<lifeVars, clientVars, proposalVars, xmtpVars>>

\* section 4 going on to section 6, the claim checks of section 5 left out
LitVerifySignature_SkipClaims ==
    /\ pc = "lit_verify"
    /\ IF ~SignatureValid(req.jwt, matchingKey)
       THEN LitFail("JWT signature verification failed") /\ UNCHANGED trace
       ELSE LitStep("verify", "lit_bind")
    /\ UNCHANGED <<req, wallet, proposal, jwks, matchingKey, signCalls, sigShare, svc, out>>
    /\ UNCHANGED <<lifeVars, clientVars, proposalVars, xmtpVars>>

LitVerifySignature ==
    /\ pc = "lit_verify"
    /\ IF ~SignatureValid(req.jwt, matchingKey)
       THEN LitFail("JWT signature verification failed") /\ UNCHANGED trace
       ELSE LitStep("verify", "lit_claims")
    /\ UNCHANGED <<req, wallet, proposal, jwks, matchingKey, signCalls, sigShare, svc, out>>
    /\ UNCHANGED <<lifeVars, clientVars, proposalVars, xmtpVars>>

LitVerifyClaims ==
    /\ pc = "lit_claims"
    /\ IF req.jwt.payload = "null"
       THEN LitFail("Lit Action error") /\ UNCHANGED trace
       ELSE IF LitClaimsError(req.jwt, Now) # "ok"
       THEN LitFail(LitClaimsError(req.jwt, Now)) /\ UNCHANGED trace
       ELSE LitStep("claims", "lit_bind")
    /\ UNCHANGED <<req, wallet, proposal, jwks, matchingKey, signCalls, sigShare, svc, out>>
    /\ UNCHANGED <<lifeVars, clientVars, proposalVars, xmtpVars>>

\* email.toLowerCase() throws into the outer catch when email is not a string
LitVerifyAuthMethodId ==
    /\ pc = "lit_bind"
    /\ IF req.jwt.email = NonString
       THEN LitFail("Lit Action error") /\ UNCHANGED trace
       ELSE IF ~LitAuthMethodIdMatches(req.jwt.email, req.authId)
       THEN LitFail("Unauthorized: JWT email does not match wallet owner") /\ UNCHANGED trace
       ELSE LitStep("bind", "lit_sign")
    /\ UNCHANGED <<req, wallet, proposal, jwks, matchingKey, signCalls, sigShare, svc, out>>
    /\ UNCHANGED <<lifeVars, clientVars, proposalVars, xmtpVars>>

\* section 7 failing after the signature was made: the share is in the result
\* although the response reports a failure
LitSignEcdsa_ShareThenThrow ==
    /\ pc = "lit_sign"
    /\ signCalls' = signCalls + 1
    /\ \E raw \in RawSigs :
         /\ sigShare' = raw
         /\ \/ trace' = Append(trace, "sign") /\ response' = Success(req.jwt.email)
            \/ response' = Failure("Lit Action error") /\ UNCHANGED trace
    /\ pc' = "lit_end"
    /\ UNCHANGED <<req, wallet, proposal, jwks, matchingKey, svc, out>>
    /\ UNCHANGED <<lifeVars, clientVars, proposalVars, xmtpVars>>

\* 7. SIGN WITH PKP: Lit.Actions.signEcdsa either returns, and the combined
\* signature is in result.signatures.sig, or throws into the outer catch
LitSignEcdsa ==
    /\ pc = "lit_sign"
    /\ signCalls' = signCalls + 1
    /\ \/ \E raw \in RawSigs :
            /\ sigShare' = raw
            /\ trace' = Append(trace, "sign")
            /\ response' = Success(req.jwt.email)
       \/ /\ response' = Failure("Lit Action error")
          /\ UNCHANGED <<sigShare, trace>>
    /\ pc' = "lit_end"
    /\ UNCHANGED <<req, wallet, proposal, jwks, matchingKey, svc, out>>
    /\ UNCHANGED <<lifeVars, clientVars, proposalVars, xmtpVars>>

\* executeJs resolves with a result whose response is missing or the empty
\* string (the branch signWithLitAction logs as "No response from Lit Action");
\* result.signatures is whatever the run produced
executeJsNoResponse ==
    /\ pc = "lit_end"
    /\ response.set
    /\ response' = NoResponse
    /\ UNCHANGED <<pc, req, wallet, proposal, jwks, matchingKey, trace, signCalls, sigShare, svc, out>>
    /\ UNCHANGED <<lifeVars, clientVars, proposalVars, xmtpVars>>

----------------------------------------------------------------------------
(* Signature assembly (lib/lit/service.ts) *)

HexValue(c) == CHOOSE d \in 0..15 : HexDigit(d) = <<c>>

\* parseInt(str, 16) on a string of hex digits; NaN (Absent) on the empty string
RECURSIVE parseInt16(_)
parseInt16(str) ==
    IF str = <<>> THEN Absent
    ELSE IF Len(str) = 1 THEN HexValue(str[1])
    ELSE parseInt16(SubSeq(str, 1, Len(str) - 1)) * 16 + HexValue(str[Len(str)])

strip0x(str) == IF startsWith0x(str) THEN slice(str, 2, Len(str)) ELSE str

\* x ?? 0
OrZero(x) == IF x = Absent THEN 0 ELSE x

\* the assembly with the 0x prefix of r and s left in place in the v7 shape
AssembleLitSignature_NoStrip(sig) ==
    IF sig.signature # <<>>
    THEN LET sigHex == strip0x(sig.signature)
         IN Prefix0x \o slice(sigHex, 0, 64) \o slice(sigHex, 64, 128)
              \o padStart(toString16(OrZero(sig.recoveryId) + 27), 2, "0")
    ELSE IF sig.r # <<>> /\ sig.s # <<>>
    THEN Prefix0x \o sig.r \o sig.s \o padStart(toString16(OrZero(sig.recid) + 27), 2, "0")
    ELSE <<>>

\* signWithLitAction, from "const sig = signatures.sig" on: the assembled
\* "0x{r}{s}{v}" string, or <<>> when the shape is not recognised (the throw)
AssembleLitSignature(sig) ==
    IF sig.signature # <<>>
    THEN LET sigHex == strip0x(sig.signature)
             r == slice(sigHex, 0, 64)
             s == slice(sigHex, 64, 128)
             recid == OrZero(sig.recoveryId)
         IN Prefix0x \o r \o s \o padStart(toString16(recid + 27), 2, "0")
    ELSE IF sig.r # <<>> /\ sig.s # <<>>
    THEN LET r == strip0x(sig.r)
             s == strip0x(sig.s)
             recid == OrZero(sig.recid)
         IN Prefix0x \o r \o s \o padStart(toString16(recid + 27), 2, "0")
    ELSE <<>>

\* signWithPkpServerSideVerification, "Format signature": the pkpSign result's
\* signature field with a 0x prefix; <<>> when the field is undefined
\* (sig.startsWith throws)
FormatPkpSignature(signingResult) ==
    IF signingResult.signature = <<>> THEN <<>>
    ELSE IF startsWith0x(signingResult.signature) THEN signingResult.signature
    ELSE Prefix0x \o signingResult.signature

TxEntries == {"signTransaction", "wallet.sendTransaction", "proposal.approve"}

\* process.env.NODE_ENV === "production" ? 1 : 11155111
ChainIds == {1, 11155111}

\* what signMessage / signTransaction make of the string signWithPkp returned;
\* signTransaction parses r, s and the raw v back out of the string and
\* computes the EIP-155 v (BigInt(NaN) throws)
ServiceResult(entry, signature, chainId) ==
    IF entry \in TxEntries
    THEN LET rawV == parseInt16(slice(signature, 130, 132))
             recoveryParam == rawV - 27
         IN IF rawV = Absent
            THEN SvcError("RangeError: NaN cannot be converted to a BigInt")
            ELSE [NoSvc EXCEPT !.kind = "ok", !.signature = signature,
                               !.r = Prefix0x \o slice(signature, 2, 66),
                               !.s = Prefix0x \o slice(signature, 66, 130),
                               !.v = chainId * 2 + 35 + recoveryParam, !.chainId = chainId]
    ELSE [NoSvc EXCEPT !.kind = "ok", !.signature = signature]

\* throw new Error(`Lit Action verification failed: ${response.error}`)
LitActionFailure(err) == [SvcError("Lit Action verification failed") EXCEPT !.detail = err]

\* signWithLitAction after executeJs returned, then the rest of signMessage /
\* signTransaction
SignWithLitActionResult ==
    /\ pc = "lit_end"
    /\ \E chainId \in ChainIds :
         svc' = IF response.set /\ ~response.success
                THEN LitActionFailure(response.error)
                ELSE IF ~sigShare.present
                THEN SvcError("No signature returned from Lit Action. JWT verification may have failed.")
                ELSE IF AssembleLitSignature(sigShare) = <<>>
                THEN SvcError("Unknown signature format returned from Lit Action")
                ELSE ServiceResult(req.entry, AssembleLitSignature(sigShare), chainId)
    /\ pc' = AfterService
    /\ UNCHANGED <<req, wallet, proposal, jwks, matchingKey, trace, signCalls, sigShare, response, out>>
    /\ UNCHANGED <<lifeVars, clientVars, proposalVars, xmtpVars>>

----------------------------------------------------------------------------
(* Hybrid mode: server-side check, then a plain pkpSign *)

LocalAuthMethodIdMatches(email, expectedAuthMethodId) ==
    idToLowerCase(keccak256(toLowerCase(email))) = idToLowerCase(expectedAuthMethodId)

\* verifyJwtAndGetEmail: the message of the error it throws, "ok" when it
\* returns the email
LocalVerifyError(jwt, expectedAuthMethodId, now) ==
    IF jwt.parts = 0 THEN "No JWT provided"
    ELSE IF jwt.parts # 3 THEN "Invalid JWT format"
    ELSE IF Undecodable(jwt.payload) THEN "SyntaxError"
    ELSE IF jwt.payload = "null" THEN "TypeError"
    ELSE IF ~TruthyStr(jwt.email) THEN "No email found in JWT"
    ELSE IF Truthy(jwt.exp) /\ jwt.exp < now THEN "JWT expired"
    ELSE IF jwt.email = NonString THEN "TypeError"
    ELSE IF ~LocalAuthMethodIdMatches(jwt.email, expectedAuthMethodId)
    THEN "Unauthorized: JWT email does not match wallet owner"
    ELSE "ok"

LocalVerifyJwt ==
    /\ pc = "signWithPkp"
    /\ req.mode = "local"
    /\ IF LocalVerifyError(req.jwt, req.authId, Now) # "ok"
       THEN /\ svc' = SvcError(LocalVerifyError(req.jwt, req.authId, Now))
            /\ pc' = AfterService
            /\ UNCHANGED trace
       ELSE /\ trace' = Append(trace, "local-verify")
            /\ pc' = "local_sign"
            /\ UNCHANGED svc
    /\ UNCHANGED <<req, wallet, proposal, jwks, matchingKey, signCalls, sigShare, response, out>>
    /\ UNCHANGED <<lifeVars, clientVars, proposalVars, xmtpVars>>

\* getLitClient / createEoaAuthContext / pkpSign, then the formatting and the
\* rest of signMessage / signTransaction
LocalPkpSign ==
    /\ pc = "local_sign"
    /\ \/ /\ svc' = SvcError("Lit network unavailable")
          /\ UNCHANGED <<signCalls, sigShare, trace>>
       \/ \E raw \in RawSigs, chainId \in ChainIds :
            /\ signCalls' = signCalls + 1
            /\ sigShare' = raw
            /\ trace' = Append(trace, "sign")
            /\ svc' = IF FormatPkpSignature(raw) = <<>>
                      THEN SvcError("TypeError")
                      ELSE ServiceResult(req.entry, FormatPkpSignature(raw), chainId)
    /\ pc' = AfterService
    /\ UNCHANGED <<req, wallet, proposal, jwks, matchingKey, response, out>>
    /\ UNCHANGED <<lifeVars, clientVars, proposalVars, xmtpVars>>

----------------------------------------------------------------------------
(* The router procedures that sign *)

\* getUserFromRequest (app/api/trpc/[trpc]/route.ts): the user row whose email
\* is the token's email claim; "" (null) when the token does not decode
CtxUser(jwt) ==
    IF jwt.parts = 3 /\ jwt.payload = "ok" /\ TruthyStr(jwt.email) /\ jwt.email # NonString
    THEN jwt.email ELSE ""

RouterReq(entry, user, jwt, authId, mode, env) ==
    [entry |-> entry, caller |-> user, jwt |-> jwt, authId |-> authId, mode |-> mode,
     dynamicEnvironmentId |-> env, toSignIsArray |-> TRUE, publicKey |-> wallet.pkpPublicKey]

\* const userAuthMethodId = isOwner ? wallet.authMethodId
\*                                  : litService.computeAuthMethodId(ctx.user.email)
UserAuthMethodId(user) ==
    IF wallet.ownerId = user THEN wallet.authMethodId ELSE computeAuthMethodId(user)

\* const canSign = isOwner || access?.role === "FULL_ACCESS"
CanSign(user) == wallet.ownerId = user \/ wallet.accessList[user] = "FULL_ACCESS"

\* the checks of a procedure up to the call of the signing service: the
\* TRPCError code it throws, "ok" when it goes on
SignGuard(user, walletId) ==
    IF user = "" THEN "UNAUTHORIZED"
    ELSE IF walletId # "w1" THEN "NOT_FOUND"
    ELSE IF ~CanSign(user) THEN "FORBIDDEN"
    ELSE IF wallet.authMethodId = NoId THEN "INTERNAL_SERVER_ERROR"
    ELSE "ok"

Reject(entry, user, jwt, code) ==
    /\ req' = [NoReq EXCEPT !.entry = entry, !.caller = user, !.jwt = jwt]
    /\ out' = TrpcError(code, "")
    /\ pc' = "done"

\* wallet.signMessage up to litService.signMessage
walletSignMessage ==
    /\ pc = "idle"
    /\ \E jwt \in Jwts, walletId \in {"w1", "w9"}, mode \in Modes :
       \E env \in EnvsFor(jwt) :
       LET user == CtxUser(jwt)
       IN IF SignGuard(user, walletId) # "ok"
          THEN Reject("wallet.signMessage", user, jwt, SignGuard(user, walletId))
          ELSE /\ req' = RouterReq("wallet.signMessage", user, jwt, UserAuthMethodId(user), mode, env)
               /\ pc' = "signWithPkp"
               /\ UNCHANGED out
    /\ UNCHANGED <<wallet, proposal, jwks, matchingKey, trace, signCalls, sigShare, response, svc>>
    /\ UNCHANGED <<lifeVars, clientVars, proposalVars, xmtpVars>>

\* wallet.sendTransaction up to litService.signTransaction; the nonce, gas price
\* and gas estimate come from the chain RPC, which can fail
walletSendTransaction ==
    /\ pc = "idle"
    /\ \E jwt \in Jwts, walletId \in {"w1", "w9"}, mode \in Modes, rpcOk \in BOOLEAN :
       \E env \in EnvsFor(jwt) :
       LET user == CtxUser(jwt)
       IN IF SignGuard(user, walletId) # "ok"
          THEN Reject("wallet.sendTransaction", user, jwt, SignGuard(user, walletId))
          ELSE IF ~rpcOk
          THEN Reject("wallet.sendTransaction", user, jwt, "INTERNAL_SERVER_ERROR")
          ELSE /\ req' = RouterReq("wallet.sendTransaction", user, jwt, UserAuthMethodId(user), mode, env)
               /\ pc' = "signWithPkp"
               /\ UNCHANGED out
    /\ UNCHANGED <<wallet, proposal, jwks, matchingKey, trace, signCalls, sigShare, response, svc>>
    /\ UNCHANGED <<lifeVars, clientVars, proposalVars, xmtpVars>>

\* the checks of transactionProposal.approve
\* (expired: proposal.expiresAt < new Date())
ApproveGuard(user, proposalId, expired) ==
    IF user = "" THEN "UNAUTHORIZED"
    ELSE IF proposalId # "p1" THEN "NOT_FOUND"
    ELSE IF wallet.ownerId # user THEN "FORBIDDEN"
    ELSE IF proposal.status # "PENDING" THEN "BAD_REQUEST"
    ELSE IF expired THEN "EXPIRED"
    ELSE IF wallet.authMethodId = NoId THEN "INTERNAL_SERVER_ERROR"
    ELSE "ok"

\* transactionProposal.approve up to litService.signTransaction: the proposal is
\* marked APPROVED; a failing chain RPC is caught and the status reverted
proposalApprove ==
    /\ pc = "idle"
    /\ \E jwt \in Jwts, proposalId \in {"p1", "p9"}, expired \in BOOLEAN, mode \in Modes,
          rpcOk \in BOOLEAN :
       \E env \in EnvsFor(jwt) :
       LET user == CtxUser(jwt)
           guard == ApproveGuard(user, proposalId, expired)
       IN IF guard = "EXPIRED"
          THEN /\ proposal' = [proposal EXCEPT !.status = "EXPIRED"]
               /\ Reject("proposal.approve", user, jwt, "BAD_REQUEST")
          ELSE IF guard # "ok"
          THEN Reject("proposal.approve", user, jwt, guard) /\ UNCHANGED proposal
          ELSE IF ~rpcOk
          THEN /\ proposal' = [proposal EXCEPT !.status = "PENDING", !.reviewerId = ""]
               /\ Reject("proposal.approve", user, jwt, "INTERNAL_SERVER_ERROR")
          ELSE /\ proposal' = [proposal EXCEPT !.status = "APPROVED", !.reviewerId = user]
               /\ req' = RouterReq("proposal.approve", user, jwt, wallet.authMethodId, mode, env)
               /\ pc' = "signWithPkp"
               /\ UNCHANGED out
    /\ UNCHANGED <<wallet, jwks, matchingKey, trace, signCalls, sigShare, response, svc>>
    /\ UNCHANGED <<lifeVars, clientVars, proposalVars, xmtpVars>>

\* an Error thrown by the signing service as the caller of the procedure gets
\* it: wallet.signMessage and wallet.sendTransaction let it through (tRPC makes
\* it INTERNAL_SERVER_ERROR with the Error's message), transactionProposal.approve
\* catches it and throws INTERNAL_SERVER_ERROR with error.message
RouterError(s) == [TrpcError("INTERNAL_SERVER_ERROR", s.error) EXCEPT !.detail = s.detail]

\* wallet.signMessage returns what litService.signMessage returned; an Error
\* thrown by the service reaches the caller as INTERNAL_SERVER_ERROR
walletSignMessageReturn ==
    /\ pc = "router_finish"
    /\ req.entry = "wallet.signMessage"
    /\ out' = IF svc.kind = "ok"
              THEN [NoOut EXCEPT !.kind = "ok"]
              ELSE RouterError(svc)
    /\ pc' = "done"
    /\ UNCHANGED <<req, wallet, proposal, jwks, matchingKey, trace, signCalls, sigShare, response, svc>>
    /\ UNCHANGED <<lifeVars, clientVars, proposalVars, xmtpVars>>

\* wallet.sendTransaction broadcasts the signed transaction
walletSendTransactionReturn ==
    /\ pc = "router_finish"
    /\ req.entry = "wallet.sendTransaction"
    /\ IF svc.kind # "ok"
       THEN out' = RouterError(svc)
       ELSE \E sent \in BOOLEAN :
              out' = IF sent
                     THEN [NoOut EXCEPT !.kind = "ok", !.broadcast = TRUE]
                     ELSE TrpcError("INTERNAL_SERVER_ERROR", "broadcast failed")
    /\ pc' = "done"
    /\ UNCHANGED <<req, wallet, proposal, jwks, matchingKey, trace, signCalls, sigShare, response, svc>>
    /\ UNCHANGED <<lifeVars, clientVars, proposalVars, xmtpVars>>

\* transactionProposal.approve broadcasts and marks the proposal EXECUTED; any
\* error is caught and the proposal put back to PENDING
proposalApproveReturn ==
    /\ pc = "router_finish"
    /\ req.entry = "proposal.approve"
    /\ IF svc.kind # "ok"
       THEN /\ proposal' = [proposal EXCEPT !.status = "PENDING", !.reviewerId = ""]
            /\ out' = RouterError(svc)
       ELSE \E sent \in BOOLEAN :
              IF sent
              THEN /\ proposal' = [proposal EXCEPT !.status = "EXECUTED", !.txHash = "0xhash"]
                   /\ out' = [NoOut EXCEPT !.kind = "ok", !.broadcast = TRUE]
              ELSE /\ proposal' = [proposal EXCEPT !.status = "PENDING", !.reviewerId = ""]
                   /\ out' = TrpcError("INTERNAL_SERVER_ERROR", "broadcast failed")
    /\ pc' = "done"
    /\ UNCHANGED <<req, wallet, jwks, matchingKey, trace, signCalls, sigShare, response, svc>>
    /\ UNCHANGED <<lifeVars, clientVars, proposalVars, xmtpVars>>

Next ==
    \/ CallService
    \/ walletSignMessage
    \/ walletSendTransaction
    \/ proposalApprove
    \/ LitUnavailable
    \/ LitValidateInputs
    \/ LitParseJwt
    \/ LitFetchJwks
    \/ LitSelectKey
    \/ LitVerifySignature
    \/ LitVerifyClaims
    \/ LitVerifyAuthMethodId
    \/ LitSignEcdsa
    \/ executeJsNoResponse
    \/ SignWithLitActionResult
    \/ LocalVerifyJwt
    \/ LocalPkpSign
    \/ walletSignMessageReturn
    \/ walletSendTransactionReturn
    \/ proposalApproveReturn

Spec == Init /\ [][Next]_vars

----------------------------------------------------------------------------
(* The wallet life cycle: concurrent requests to the procedures that create,
   rename, migrate and share the wallet (LifeSpec) *)

\* PKPs minted in a run
MaxMint == 1

\* the users who call the owner's procedures
LifeUsers == {"alice@x.com", "bob@x.com"}

\* messages of the errors the SDK throws out of a contract transaction
SdkErrors == {"fetch failed", "insufficient funds for gas"}

WalletNames == {"renamed"}

\* the request slot is free: no request yet, or the last one has answered
AtRest(p) == proc[p].pc \in {"idle", "done"}

\* a procedure entered by user
Entered(op, user) == [NoProc EXCEPT !.op = op, !.user = user]

\* a plain Error that leaves a procedure: tRPC answers INTERNAL_SERVER_ERROR
\* with the Error's message
Uncaught(msg) == TrpcError("INTERNAL_SERVER_ERROR", msg)

Ok(msg) == [NoOut EXCEPT !.kind = "ok", !.message = msg]

\* the procedure of request p answers; of its locals the record keeps what
\* the run did on the signing network
Answer(p, rec, o) ==
    proc' = [proc EXCEPT ![p] = [NoProc EXCEPT !.pc = "done", !.op = rec.op, !.out = o,
                                               !.minted = rec.minted, !.threwAt = rec.threwAt]]

\* wallet.create up to "Minting new PKP...": mintPKP computes the id and gets
\* the Lit client (the email is the caller's, ETHEREUM_PRIVATE_KEY is set)
walletCreate ==
    /\ \E p \in Procs, user \in LifeUsers, litOk \in BOOLEAN :
         /\ AtRest(p)
         /\ LET rec == Entered("wallet.create", user)
            IN IF ~litOk
               THEN Answer(p, rec, Uncaught("Lit network unavailable"))
               ELSE proc' = [proc EXCEPT ![p] =
                               [rec EXCEPT !.pc = "mint",
                                           !.authMethodId = computeAuthMethodId(user)]]
    /\ UNCHANGED <<wallet, chain, db, signVars, clientVars, proposalVars, xmtpVars>>

\* litClient.mintWithEoa and the reading of its result: the transaction throws,
\* or the key-share set is minted and the result has, or lacks, tokenId and
\* publicKey; every throw goes through the catch, which rethrows it
mintWithEoa ==
    /\ \E p \in Procs :
         /\ proc[p].pc = "mint"
         /\ \/ /\ \E m \in SdkErrors :
                    Answer(p, [proc[p] EXCEPT !.threwAt = "mint"], Uncaught(m))
               /\ UNCHANGED chain
            \/ /\ chain.minted < MaxMint
               /\ chain' = [chain EXCEPT !.minted = @ + 1]
               /\ \E result \in {"ok", "noTokenId", "noPublicKey"} :
                    LET rec == [proc[p] EXCEPT !.minted = TRUE]
                    IN IF result = "noTokenId"
                       THEN Answer(p, [rec EXCEPT !.threwAt = "mint"],
                                   Uncaught("No tokenId returned from mintWithEoa"))
                       ELSE IF result = "noPublicKey"
                       THEN Answer(p, [rec EXCEPT !.threwAt = "mint"],
                                   Uncaught("No publicKey returned from mintWithEoa"))
                       ELSE proc' = [proc EXCEPT ![p] = [rec EXCEPT !.pc = "grantAddress"]]
    /\ UNCHANGED <<wallet, db, signVars, clientVars, proposalVars, xmtpVars>>

\* pkpPermissionsManager.addPermittedAddress: the grant is made and mintPKP
\* returns the PKPInfo, or the transaction throws into the same catch
\* ("Failed to mint PKP" is logged, the error rethrown as it is)
addPermittedAddress ==
    /\ \E p \in Procs :
         /\ proc[p].pc = "grantAddress"
         /\ \/ /\ chain' = [chain EXCEPT !.permittedAddress = @ + 1]
               /\ proc' = [proc EXCEPT ![p].pc = "createRow"]
            \/ /\ \E m \in SdkErrors :
                    Answer(p, [proc[p] EXCEPT !.threwAt = "grant"], Uncaught(m))
               /\ UNCHANGED chain
    /\ UNCHANGED <<wallet, db, signVars, clientVars, proposalVars, xmtpVars>>

\* ctx.prisma.wallet.create with the authMethodId mintPKP returned
prismaWalletCreate ==
    /\ \E p \in Procs :
         /\ proc[p].pc = "createRow"
         /\ db' = [db EXCEPT !.created =
                     @ \cup {[ownerId |-> proc[p].user, authMethodId |-> proc[p].authMethodId]}]
         /\ Answer(p, proc[p], Ok(""))
    /\ UNCHANGED <<wallet, chain, signVars, clientVars, proposalVars, xmtpVars>>

\* the checks of wallet.update: the TRPCError code, "ok" when it goes on
UpdateGuard(user, walletId) ==
    IF walletId # "w1" THEN "NOT_FOUND"
    ELSE IF wallet.ownerId # user THEN "FORBIDDEN"
    ELSE "ok"

\* wallet.update up to prisma.wallet.update
walletUpdate ==
    /\ \E p \in Procs, user \in LifeUsers, walletId \in {"w1", "w9"}, name \in WalletNames :
         /\ AtRest(p)
         /\ LET rec == [Entered("wallet.update", user) EXCEPT !.name = name]
            IN IF UpdateGuard(user, walletId) # "ok"
               THEN Answer(p, rec, TrpcError(UpdateGuard(user, walletId), ""))
               ELSE proc' = [proc EXCEPT ![p] = [rec EXCEPT !.pc = "updateRow"]]
    /\ UNCHANGED <<wallet, chain, db, signVars, clientVars, proposalVars, xmtpVars>>

\* prisma.wallet.update({ data: { name: input.name } })
prismaWalletUpdate ==
    /\ \E p \in Procs :
         /\ proc[p].pc = "updateRow"
         /\ wallet' = [wallet EXCEPT !.name = proc[p].name]
         /\ Answer(p, proc[p], Ok(""))
    /\ UNCHANGED <<chain, db, signVars, clientVars, proposalVars, xmtpVars>>

\* the checks of wallet.migrateToJwtAuth with the owner check left out
MigrateGuard_NoOwnerCheck(user, walletId) ==
    IF walletId # "w1" THEN "NOT_FOUND"
    ELSE IF wallet.authMethodId # NoId THEN "migrated"
    ELSE "ok"

\* the checks of wallet.migrateToJwtAuth: the TRPCError code, "migrated" for
\* the early return, "ok" when it goes on
MigrateGuard(user, walletId) ==
    IF walletId # "w1" THEN "NOT_FOUND"
    ELSE IF wallet.ownerId # user THEN "FORBIDDEN"
    ELSE IF wallet.authMethodId # NoId THEN "migrated"
    ELSE "ok"

\* wallet.migrateToJwtAuth up to the call of litService.addPermittedAuthMethod
migrateToJwtAuth ==
    /\ \E p \in Procs, user \in LifeUsers, walletId \in {"w1", "w9"} :
         /\ AtRest(p)
         /\ LET rec == Entered("wallet.migrateToJwtAuth", user)
                guard == MigrateGuard(user, walletId)
            IN IF guard = "migrated"
               THEN Answer(p, rec, Ok("Wallet already migrated"))
               ELSE IF guard # "ok"
               THEN Answer(p, rec, TrpcError(guard, ""))
               ELSE proc' = [proc EXCEPT ![p] =
                               [rec EXCEPT !.pc = "addAuthMethod",
                                           !.authMethodId = computeAuthMethodId(user)]]
    /\ UNCHANGED <<wallet, chain, db, signVars, clientVars, proposalVars, xmtpVars>>

\* litService.addPermittedAuthMethod up to the grant: ETHEREUM_PRIVATE_KEY,
\* getLitClient and getPKPPermissionsManager, then the transaction is sent;
\* the procedure answers every throw with the same INTERNAL_SERVER_ERROR
addPermittedAuthMethod ==
    /\ \E p \in Procs, ready \in BOOLEAN :
         /\ proc[p].pc = "addAuthMethod"
         /\ IF ready
            THEN proc' = [proc EXCEPT ![p].pc = "granting"]
            ELSE Answer(p, [proc[p] EXCEPT !.threwAt = "grant"],
                        TrpcError("INTERNAL_SERVER_ERROR", "Failed to add auth method to PKP"))
    /\ UNCHANGED <<wallet, chain, db, signVars, clientVars, proposalVars, xmtpVars>>

\* the grant pkpPermissionsManager.addPermittedAuthMethod sent to the signing
\* network ends: the id is permitted on the key-share set, or the call throws
grantAuthMethod ==
    /\ \E p \in Procs :
         /\ proc[p].pc = "granting"
         /\ \/ /\ chain' = [chain EXCEPT !.authMethods = @ \cup {proc[p].authMethodId}]
               /\ proc' = [proc EXCEPT ![p].pc = "migrateRow"]
            \/ /\ Answer(p, [proc[p] EXCEPT !.threwAt = "grant"],
                         TrpcError("INTERNAL_SERVER_ERROR", "Failed to add auth method to PKP"))
               /\ UNCHANGED chain
    /\ UNCHANGED <<wallet, db, signVars, clientVars, proposalVars, xmtpVars>>

\* prisma.wallet.update({ data: { authMethodId } }) and the answer
prismaWalletMigrate ==
    /\ \E p \in Procs :
         /\ proc[p].pc = "migrateRow"
         /\ wallet' = [wallet EXCEPT !.authMethodId = proc[p].authMethodId]
         /\ Answer(p, proc[p], Ok("Wallet migrated to JWT authentication"))
    /\ UNCHANGED <<chain, db, signVars, clientVars, proposalVars, xmtpVars>>

\* the checks of acceptInvitation and rejectInvitation on the row findUnique
\* returned
InvitationChecks(user, invitationId) ==
    IF invitationId # "i1" THEN "NOT_FOUND"
    ELSE IF db.invitation.inviteeEmail # user THEN "FORBIDDEN"
    ELSE IF db.invitation.status # "PENDING" THEN "BAD_REQUEST"
    ELSE "ok"

\* a request has found invitation.expiresAt < new Date() and not yet written
SeenExpired == \E p \in Procs : proc[p].pc = "expireInvitation"

\* messaging.acceptInvitation, findUnique and the checks: the invitation is
\* for the caller's email, pending and not expired (expired: expiresAt <
\* new Date(); once a request has seen it expired, every later one does)
acceptInvitation ==
    /\ \E p \in Procs, user \in {"ALICE@X.COM", "bob@x.com"}, invitationId \in {"i1", "i9"},
          expired \in BOOLEAN :
         /\ AtRest(p)
         /\ expired \/ ~SeenExpired
         /\ LET rec == Entered("messaging.acceptInvitation", user)
                checks == InvitationChecks(user, invitationId)
            IN IF checks # "ok"
               THEN Answer(p, rec, TrpcError(checks, ""))
               ELSE IF expired
               THEN proc' = [proc EXCEPT ![p] = [rec EXCEPT !.pc = "expireInvitation"]]
               ELSE proc' = [proc EXCEPT ![p] = [rec EXCEPT !.pc = "createAccess"]]
    /\ UNCHANGED <<wallet, chain, db, signVars, clientVars, proposalVars, xmtpVars>>

\* walletInvitation.update({ status: "EXPIRED" }), then BAD_REQUEST
prismaInvitationExpire ==
    /\ \E p \in Procs :
         /\ proc[p].pc = "expireInvitation"
         /\ db' = [db EXCEPT !.invitation.status = "EXPIRED"]
         /\ Answer(p, proc[p], TrpcError("BAD_REQUEST", "Invitation has expired"))
    /\ UNCHANGED <<wallet, chain, signVars, clientVars, proposalVars, xmtpVars>>

\* walletAccess.create({ walletId, userId, role: invitation.role }): the row
\* is created, or the unique index on (walletId, userId) rejects a second row
\* of the user and the error leaves the procedure
prismaAccessCreate ==
    /\ \E p \in Procs :
         /\ proc[p].pc = "createAccess"
         /\ IF wallet.accessList[proc[p].user] # "NONE"
            THEN /\ Answer(p, proc[p], Uncaught("Unique constraint failed"))
                 /\ UNCHANGED wallet
            ELSE /\ wallet' = [wallet EXCEPT !.accessList[proc[p].user] = db.invitation.role]
                 /\ proc' = [proc EXCEPT ![p].pc = "markAccepted"]
    /\ UNCHANGED <<chain, db, signVars, clientVars, proposalVars, xmtpVars>>

\* walletInvitation.update({ status: "ACCEPTED", inviteeId }) and the answer
prismaInvitationAccept ==
    /\ \E p \in Procs :
         /\ proc[p].pc = "markAccepted"
         /\ db' = [db EXCEPT !.invitation.status = "ACCEPTED"]
         /\ Answer(p, proc[p], Ok(""))
    /\ UNCHANGED <<wallet, chain, signVars, clientVars, proposalVars, xmtpVars>>

\* messaging.updateRole: the owner changes the role of a user who has access
updateRole ==
    /\ \E p \in Procs, user \in LifeUsers, target \in {"bob@x.com", "ALICE@X.COM"},
          role \in {"VIEW_ONLY"} :
         /\ AtRest(p)
         /\ LET rec == Entered("messaging.updateRole", user)
            IN IF wallet.ownerId # user
               THEN Answer(p, rec, TrpcError("FORBIDDEN", "")) /\ UNCHANGED wallet
               ELSE IF wallet.accessList[target] = "NONE"
               THEN Answer(p, rec, TrpcError("NOT_FOUND", "")) /\ UNCHANGED wallet
               ELSE /\ wallet' = [wallet EXCEPT !.accessList[target] = role]
                    /\ Answer(p, rec, Ok(""))
    /\ UNCHANGED <<chain, db, signVars, clientVars, proposalVars, xmtpVars>>

\* a signing request (wallet.signMessage, wallet.sendTransaction,
\* transactionProposal.approve) as the wallet row sees it: the row is read for
\* the checks and the authorization id, and nothing is written to it
signRequest ==
    /\ \E p \in Procs, user \in LifeUsers, signed \in BOOLEAN :
         /\ AtRest(p)
         /\ LET rec == [Entered("wallet.signMessage", user) EXCEPT
                           !.authMethodId = UserAuthMethodId(user)]
            IN IF SignGuard(user, "w1") # "ok"
               THEN Answer(p, rec, TrpcError(SignGuard(user, "w1"), ""))
               ELSE IF signed
               THEN Answer(p, rec, Ok(""))
               ELSE Answer(p, rec, Uncaught("Lit Action verification failed"))
    /\ UNCHANGED <<wallet, chain, db, signVars, clientVars, proposalVars, xmtpVars>>

LifeInit ==
    /\ SignIdle
    /\ wallet \in {LegacyWallet, MigratedWallet}
    /\ LifeIdle
    /\ ClientIdle
    /\ ProposalIdle
    /\ XmtpIdle

LifeNext ==
    \/ walletCreate
    \/ mintWithEoa
    \/ addPermittedAddress
    \/ prismaWalletCreate
    \/ walletUpdate
    \/ prismaWalletUpdate
    \/ migrateToJwtAuth
    \/ addPermittedAuthMethod
    \/ grantAuthMethod
    \/ prismaWalletMigrate
    \/ acceptInvitation
    \/ prismaInvitationExpire
    \/ prismaAccessCreate
    \/ prismaInvitationAccept
    \/ updateRole
    \/ signRequest

LifeSpec == LifeInit /\ [][LifeNext]_vars

----------------------------------------------------------------------------
(* Signing for a shared wallet while its access rows change: concurrent
   requests to wallet.signMessage, wallet.sendTransaction, updateRole and
   revokeAccess (AccessSpec) *)

\* the callers: the owner, a FULL_ACCESS user, a CO_SIGNER, a user with no row
AccessUsers == {"alice@x.com", "bob@x.com", "carol@x.com", "ALICE@X.COM"}

\* wallet.sendTransaction: findUnique with the access rows, and the checks
sendTransaction ==
    /\ \E p \in Procs, user \in AccessUsers, walletId \in {"w1", "w9"} :
         /\ AtRest(p)
         /\ LET rec == [Entered("wallet.sendTransaction", user) EXCEPT
                           !.authMethodId = UserAuthMethodId(user)]
            IN IF SignGuard(user, walletId) # "ok"
               THEN Answer(p, rec, TrpcError(SignGuard(user, walletId), ""))
               ELSE proc' = [proc EXCEPT ![p] = [rec EXCEPT !.pc = "chainParams"]]
    /\ UNCHANGED <<wallet, chain, db, signVars, clientVars, proposalVars, xmtpVars>>

\* Promise.all([getTransactionCount, getGasPrice, estimateGas]) throws, or
\* litService.signTransaction is called and returns the signed transaction
\* or throws
litServiceSignTransaction ==
    /\ \E p \in Procs, step \in {"getTransactionCount", "signTransaction", ""} :
         /\ proc[p].pc = "chainParams"
         /\ IF step = ""
            THEN proc' = [proc EXCEPT ![p].pc = "broadcast"]
            ELSE Answer(p, [proc[p] EXCEPT !.threwAt = step], Uncaught(step))
    /\ UNCHANGED <<wallet, chain, db, signVars, clientVars, proposalVars, xmtpVars>>

\* blockchainService.broadcastTransaction and the answer
broadcastTransaction ==
    /\ \E p \in Procs :
         /\ proc[p].pc = "broadcast"
         /\ Answer(p, proc[p], [Ok("") EXCEPT !.broadcast = TRUE])
    /\ UNCHANGED <<wallet, chain, db, signVars, clientVars, proposalVars, xmtpVars>>

\* messaging.revokeAccess: the owner deletes the access row of a user
revokeAccess ==
    /\ \E p \in Procs, user \in LifeUsers, target \in {"bob@x.com", "ALICE@X.COM"} :
         /\ AtRest(p)
         /\ LET rec == Entered("messaging.revokeAccess", user)
            IN IF wallet.ownerId # user
               THEN Answer(p, rec, TrpcError("FORBIDDEN", "")) /\ UNCHANGED wallet
               ELSE IF wallet.accessList[target] = "NONE"
               THEN Answer(p, rec, TrpcError("NOT_FOUND", "")) /\ UNCHANGED wallet
               ELSE /\ wallet' = [wallet EXCEPT !.accessList[target] = "NONE"]
                    /\ Answer(p, rec, Ok(""))
    /\ UNCHANGED <<chain, db, signVars, clientVars, proposalVars, xmtpVars>>

AccessNext ==
    \/ signRequest
    \/ sendTransaction
    \/ litServiceSignTransaction
    \/ broadcastTransaction
    \/ updateRole
    \/ revokeAccess

AccessSpec == LifeInit /\ [][AccessNext]_vars

----------------------------------------------------------------------------
(* The signing-network client of lib/lit/client.ts, asked for by concurrent
   callers (ClientSpec) *)

\* LitNodeClient objects constructed in a run
MaxClients == 3

\* the caller is not inside getLitClient
Outside(c) == caller[c].pc \in {"idle", "done"}

\* the connection state of the object the module variable refers to
StateOf(ref, objs) == IF ref = 0 THEN "null" ELSE objs[ref]

\* getLitClient up to the dynamic import: "if (litNodeClient) return
\* litNodeClient", else the function waits for the import
getLitClient ==
    /\ \E c \in Callers :
         /\ Outside(c)
         /\ caller' = [caller EXCEPT ![c] =
              IF litNodeClient # 0
              THEN [NoCaller EXCEPT !.pc = "done", !.got = litNodeClient,
                                    !.gotState = StateOf(litNodeClient, clients)]
              ELSE [NoCaller EXCEPT !.pc = "import"]]
    /\ UNCHANGED <<litNodeClient, clients>>
    /\ UNCHANGED <<wallet, signVars, lifeVars, proposalVars, xmtpVars>>

\* the import has resolved: litNodeClient = new LitNodeClient(...), and
\* connect() is called on it
newLitNodeClient ==
    /\ \E c \in Callers :
         /\ caller[c].pc = "import"
         /\ Len(clients) < MaxClients
         /\ clients' = Append(clients, "connecting")
         /\ litNodeClient' = Len(clients) + 1
         /\ caller' = [caller EXCEPT ![c] = [@ EXCEPT !.pc = "connect", !.mine = Len(clients) + 1]]
    /\ UNCHANGED <<wallet, signVars, lifeVars, proposalVars, xmtpVars>>

\* connect() resolves: the function returns what litNodeClient holds now
connectResolves ==
    /\ \E c \in Callers :
         /\ caller[c].pc = "connect"
         /\ clients' = [clients EXCEPT ![caller[c].mine] = "connected"]
         /\ caller' = [caller EXCEPT ![c] =
              [@ EXCEPT !.pc = "done", !.got = litNodeClient,
                        !.gotState = StateOf(litNodeClient, clients')]]
    /\ UNCHANGED litNodeClient
    /\ UNCHANGED <<wallet, signVars, lifeVars, proposalVars, xmtpVars>>

\* connect() rejects: litNodeClient = null, and the function throws
connectRejects ==
    /\ \E c \in Callers :
         /\ caller[c].pc = "connect"
         /\ clients' = [clients EXCEPT ![caller[c].mine] = "failed"]
         /\ litNodeClient' = 0
         /\ caller' = [caller EXCEPT ![c] =
              [@ EXCEPT !.pc = "done", !.error = "Failed to connect to Lit network"]]
    /\ UNCHANGED <<wallet, signVars, lifeVars, proposalVars, xmtpVars>>

ClientNext ==
    \/ getLitClient
    \/ newLitNodeClient
    \/ connectResolves
    \/ connectRejects

ClientSpec == Init /\ [][ClientNext]_vars

----------------------------------------------------------------------------
(* The review of a transaction proposal: concurrent requests to
   transactionProposal.approve, reject and cancel, each split at its awaits
   (ProposalSpec) *)

\* the request r has not entered a procedure
NotEntered(r) == reviews[r].pc = "idle"

\* the request r answers with o
Reply(r, o) == reviews' = [reviews EXCEPT ![r].pc = "done", ![r].out = o]

\* the request r goes on to the next await
Goto(r, next) == reviews' = [reviews EXCEPT ![r].pc = next]

\* a step of the try block of approve throws: control goes to the catch
Caught(r, step) == reviews' = [reviews EXCEPT ![r].pc = "catch", ![r].threwAt = step]

\* the checks of approve and reject on the row findUnique returned
ReviewChecks(user, proposalId) ==
    IF proposalId # "p1" THEN "NOT_FOUND"
    ELSE IF wallet.ownerId # user THEN "FORBIDDEN"
    ELSE IF txProposal.status # "PENDING" THEN "BAD_REQUEST"
    ELSE "ok"

\* the checks of cancel
CancelChecks(user, proposalId) ==
    IF proposalId # "p1" THEN "NOT_FOUND"
    ELSE IF Proposer # user THEN "FORBIDDEN"
    ELSE IF txProposal.status # "PENDING" THEN "BAD_REQUEST"
    ELSE "ok"

\* approve: findUnique and the checks up to the first write
approve ==
    /\ \E r \in Reviewers, user \in ReviewUsers, proposalId \in {"p1", "p9"} :
         /\ NotEntered(r)
         /\ LET entered == [reviews EXCEPT ![r].op = "approve", ![r].user = user]
                checks == ReviewChecks(user, proposalId)
            IN IF checks # "ok"
               THEN reviews' = [entered EXCEPT ![r].pc = "done", ![r].out = TrpcError(checks, "")]
               ELSE IF txProposal.expiresAt = "past"
               THEN reviews' = [entered EXCEPT ![r].pc = "expire"]
               ELSE IF wallet.authMethodId = NoId
               THEN reviews' = [entered EXCEPT ![r].pc = "done",
                                  ![r].out = TrpcError("INTERNAL_SERVER_ERROR",
                                                       "Wallet is missing auth method ID")]
               ELSE reviews' = [entered EXCEPT ![r].pc = "markApproved"]
    /\ UNCHANGED <<wallet, txProposal, txCount, signVars, lifeVars, clientVars, xmtpVars>>

\* update({ status: "EXPIRED" }), then BAD_REQUEST "Proposal has expired"
prismaExpire ==
    /\ \E r \in Reviewers :
         /\ reviews[r].pc = "expire"
         /\ txProposal' = [txProposal EXCEPT !.status = "EXPIRED"]
         /\ Reply(r, TrpcError("BAD_REQUEST", "Proposal has expired"))
    /\ UNCHANGED <<wallet, txCount, signVars, lifeVars, clientVars, xmtpVars>>

\* update({ status: "APPROVED", reviewerId, reviewedAt })
prismaApprove ==
    /\ \E r \in Reviewers :
         /\ reviews[r].pc = "markApproved"
         /\ txProposal' = [txProposal EXCEPT !.status = "APPROVED",
                                             !.reviewerId = reviews[r].user,
                                             !.reviewedAt = "set"]
         /\ Goto(r, "chainParams")
    /\ UNCHANGED <<wallet, txCount, signVars, lifeVars, clientVars, xmtpVars>>

\* Promise.all([getTransactionCount, getGasPrice, estimateGas]): the nonce is
\* the account's transaction count, or a call throws
getTransactionCount ==
    /\ \E r \in Reviewers :
         /\ reviews[r].pc = "chainParams"
         /\ \/ reviews' = [reviews EXCEPT ![r].pc = "sign", ![r].nonce = txCount]
            \/ Caught(r, "getTransactionCount")
    /\ UNCHANGED <<wallet, txProposal, txCount, signVars, lifeVars, clientVars, xmtpVars>>

\* litService.signTransaction returns the serialized transaction or throws
signTransaction ==
    /\ \E r \in Reviewers :
         /\ reviews[r].pc = "sign"
         /\ \/ Goto(r, "send")
            \/ Caught(r, "signTransaction")
    /\ UNCHANGED <<wallet, txProposal, txCount, signVars, lifeVars, clientVars, xmtpVars>>

\* broadcastTransaction, client.sendRawTransaction: the network takes the
\* transaction when its nonce is the account's transaction count, and answers
\* "nonce too low" otherwise; or the call fails before the network has it
sendRawTransaction ==
    /\ \E r \in Reviewers :
         /\ reviews[r].pc = "send"
         /\ \/ /\ reviews[r].nonce = txCount
               /\ txCount' = txCount + 1
               /\ Goto(r, "receipt")
            \/ /\ Caught(r, "sendRawTransaction")
               /\ UNCHANGED txCount
    /\ UNCHANGED <<wallet, txProposal, signVars, lifeVars, clientVars, xmtpVars>>

\* broadcastTransaction, client.waitForTransactionReceipt: returns the
\* receipt, or throws (time-out, connection lost) with the transaction sent
waitForTransactionReceipt ==
    /\ \E r \in Reviewers :
         /\ reviews[r].pc = "receipt"
         /\ \/ Goto(r, "markExecuted")
            \/ Caught(r, "waitForTransactionReceipt")
    /\ UNCHANGED <<wallet, txProposal, txCount, signVars, lifeVars, clientVars, xmtpVars>>

\* update({ status: "EXECUTED", txHash }) and the answer; the update is inside
\* the try block, and a database error goes to the catch too
prismaExecute ==
    /\ \E r \in Reviewers :
         /\ reviews[r].pc = "markExecuted"
         /\ \/ /\ txProposal' = [txProposal EXCEPT !.status = "EXECUTED", !.txHash = "0xhash"]
               /\ Reply(r, [Ok("") EXCEPT !.broadcast = TRUE])
            \/ /\ Caught(r, "update")
               /\ UNCHANGED txProposal
    /\ UNCHANGED <<wallet, txCount, signVars, lifeVars, clientVars, xmtpVars>>

\* catch: update({ status: "PENDING", reviewerId: null, reviewedAt: null }),
\* then INTERNAL_SERVER_ERROR with the error's message
prismaRevert ==
    /\ \E r \in Reviewers :
         /\ reviews[r].pc = "catch"
         /\ txProposal' = [txProposal EXCEPT !.status = "PENDING", !.reviewerId = "",
                                             !.reviewedAt = ""]
         /\ Reply(r, TrpcError("INTERNAL_SERVER_ERROR", reviews[r].threwAt))
    /\ UNCHANGED <<wallet, txCount, signVars, lifeVars, clientVars, xmtpVars>>

\* reject: findUnique and the checks
reject ==
    /\ \E r \in Reviewers, user \in ReviewUsers, proposalId \in {"p1", "p9"} :
         /\ NotEntered(r)
         /\ LET entered == [reviews EXCEPT ![r].op = "reject", ![r].user = user]
                checks == ReviewChecks(user, proposalId)
            IN IF checks # "ok"
               THEN reviews' = [entered EXCEPT ![r].pc = "done", ![r].out = TrpcError(checks, "")]
               ELSE reviews' = [entered EXCEPT ![r].pc = "markRejected"]
    /\ UNCHANGED <<wallet, txProposal, txCount, signVars, lifeVars, clientVars, xmtpVars>>

\* update({ status: "REJECTED", reviewerId, reviewedAt })
prismaReject ==
    /\ \E r \in Reviewers :
         /\ reviews[r].pc = "markRejected"
         /\ txProposal' = [txProposal EXCEPT !.status = "REJECTED",
                                             !.reviewerId = reviews[r].user,
                                             !.reviewedAt = "set"]
         /\ Reply(r, Ok(""))
    /\ UNCHANGED <<wallet, txCount, signVars, lifeVars, clientVars, xmtpVars>>

\* cancel: findUnique and the checks
cancel ==
    /\ \E r \in Reviewers, user \in ReviewUsers, proposalId \in {"p1", "p9"} :
         /\ NotEntered(r)
         /\ LET entered == [reviews EXCEPT ![r].op = "cancel", ![r].user = user]
                checks == CancelChecks(user, proposalId)
            IN IF checks # "ok"
               THEN reviews' = [entered EXCEPT ![r].pc = "done", ![r].out = TrpcError(checks, "")]
               ELSE reviews' = [entered EXCEPT ![r].pc = "markCancelled"]
    /\ UNCHANGED <<wallet, txProposal, txCount, signVars, lifeVars, clientVars, xmtpVars>>

\* update({ status: "REJECTED" })
prismaCancel ==
    /\ \E r \in Reviewers :
         /\ reviews[r].pc = "markCancelled"
         /\ txProposal' = [txProposal EXCEPT !.status = "REJECTED"]
         /\ Reply(r, Ok(""))
    /\ UNCHANGED <<wallet, txCount, signVars, lifeVars, clientVars, xmtpVars>>

\* the clock passes proposal.expiresAt
expiresAtPasses ==
    /\ txProposal.expiresAt = "future"
    /\ txProposal' = [txProposal EXCEPT !.expiresAt = "past"]
    /\ UNCHANGED <<wallet, reviews, txCount, signVars, lifeVars, clientVars, xmtpVars>>

ProposalNext ==
    \/ approve
    \/ prismaExpire
    \/ prismaApprove
    \/ getTransactionCount
    \/ signTransaction
    \/ sendRawTransaction
    \/ waitForTransactionReceipt
    \/ prismaExecute
    \/ prismaRevert
    \/ reject
    \/ prismaReject
    \/ cancel
    \/ prismaCancel
    \/ expiresAtPasses

ProposalSpec == Init /\ [][ProposalNext]_vars

----------------------------------------------------------------------------
(* The XMTP client cache of lib/xmtp: getXmtpClient, refreshXmtpClient and
   closeXmtpClient called one after the other (XmtpSpec) *)

\* wallet addresses the calls are made with
MaxAddresses == 52

\* periods of CLIENT_MAX_AGE_MS the clock can pass in a run
MaxAges == 1

CLIENT_MAX_AGE_MS == 1800000

MAX_CACHED_CLIENTS == 50

Addresses == 1..MaxAddresses

\* clientLastUsed.set(address, time): a key the Map has keeps its place
MapSet(entries, address, time) ==
    IF \E i \in 1..Len(entries) : entries[i][1] = address
    THEN [i \in 1..Len(entries) |->
            IF entries[i][1] = address THEN <<address, time>> ELSE entries[i]]
    ELSE Append(entries, <<address, time>>)

\* clientLastUsed.delete(address)
MapDelete(entries, address) == SelectSeq(entries, LAMBDA e : e[1] # address)

\* entry put into a list sorted by lastUsed, after the entries that are not
\* greater (Array.prototype.sort is stable)
RECURSIVE InsertSorted(_, _)
InsertSorted(sorted, entry) ==
    IF sorted = <<>> THEN <<entry>>
    ELSE IF sorted[Len(sorted)][2] <= entry[2] THEN Append(sorted, entry)
    ELSE Append(InsertSorted(SubSeq(sorted, 1, Len(sorted) - 1), entry), sorted[Len(sorted)])

\* Array.from(clientLastUsed.entries()).sort((a, b) => a[1] - b[1])
RECURSIVE SortByLastUsed(_)
SortByLastUsed(entries) ==
    IF entries = <<>> THEN <<>>
    ELSE InsertSorted(SortByLastUsed(SubSeq(entries, 1, Len(entries) - 1)), entries[Len(entries)])

\* cleanupOldClients: the addresses it closes
clientsToRemove(cache, entries, time) ==
    LET stale == {entries[i][1] : i \in {j \in 1..Len(entries) :
                                            time - entries[j][2] > CLIENT_MAX_AGE_MS}}
        sortedClients == IF Cardinality(cache) > MAX_CACHED_CLIENTS
                         THEN SubSeq(SortByLastUsed(entries), 1,
                                     Cardinality(cache) - MAX_CACHED_CLIENTS)
                         ELSE <<>>
    IN stale \cup {sortedClients[i][1] : i \in 1..Len(sortedClients)}

\* closeXmtpClient on each address of the set: only an address with a cached
\* client is deleted from the two Maps
ClosedCache(cache, removed) == cache \ removed

ClosedLastUsed(cache, entries, removed) ==
    SelectSeq(entries, LAMBDA e : ~(e[1] \in removed /\ e[1] \in cache))

\* the address of the client cached last, and the next address no call was
\* made with so far
NewestCached == clientLastUsed[Len(clientLastUsed)][1]
NextAddress ==
    IF clientCache = {} THEN 1
    ELSE (CHOOSE a \in clientCache : \A b \in clientCache : a >= b) + 1

\* the addresses a call is made with: the one cached last (when there is one)
\* and the next new one (when one is left)
CallAddresses ==
    (IF clientCache # {} THEN {NewestCached} ELSE {})
    \cup (IF NextAddress \in Addresses THEN {NextAddress} ELSE {})

\* getXmtpClient(walletAddress): the cached client, or cleanupOldClients and a
\* client made by Client.create (or createFreshClient), which can throw
getXmtpClient ==
    /\ \E walletAddress \in CallAddresses, created \in BOOLEAN :
         IF walletAddress \in clientCache
         THEN /\ created
              /\ clientLastUsed' = MapSet(clientLastUsed, walletAddress, dateNow)
              /\ UNCHANGED clientCache
         ELSE LET removed == clientsToRemove(clientCache, clientLastUsed, dateNow)
                  cache == ClosedCache(clientCache, removed)
                  entries == ClosedLastUsed(clientCache, clientLastUsed, removed)
              IN IF created
                 THEN /\ clientCache' = cache \cup {walletAddress}
                      /\ clientLastUsed' = MapSet(entries, walletAddress, dateNow)
                 ELSE /\ clientCache' = cache
                      /\ clientLastUsed' = entries
    /\ UNCHANGED <<wallet, dateNow, signVars, lifeVars, clientVars, proposalVars>>

\* refreshXmtpClient(walletAddress): the address leaves the Maps, then
\* createFreshClient caches a new client (or Client.create throws)
refreshXmtpClient ==
    /\ \E walletAddress \in CallAddresses, created \in BOOLEAN :
         LET cache == clientCache \ {walletAddress}
             entries == MapDelete(clientLastUsed, walletAddress)
         IN IF created
            THEN /\ clientCache' = cache \cup {walletAddress}
                 /\ clientLastUsed' = MapSet(entries, walletAddress, dateNow)
            ELSE /\ clientCache' = cache
                 /\ clientLastUsed' = entries
    /\ UNCHANGED <<wallet, dateNow, signVars, lifeVars, clientVars, proposalVars>>

\* closeXmtpClient(address)
closeXmtpClient ==
    /\ \E address \in CallAddresses :
         IF address \in clientCache
         THEN /\ clientCache' = clientCache \ {address}
              /\ clientLastUsed' = MapDelete(clientLastUsed, address)
         ELSE UNCHANGED <<clientCache, clientLastUsed>>
    /\ UNCHANGED <<wallet, dateNow, signVars, lifeVars, clientVars, proposalVars>>

\* the clock passes the maximum age of every client cached so far
clockPassesMaxAge ==
    /\ dateNow < MaxAges * (CLIENT_MAX_AGE_MS + 1)
    /\ dateNow' = dateNow + CLIENT_MAX_AGE_MS + 1
    /\ UNCHANGED <<wallet, clientCache, clientLastUsed, signVars, lifeVars, clientVars,
                   proposalVars>>

XmtpNext ==
    \/ getXmtpClient
    \/ refreshXmtpClient
    \/ closeXmtpClient
    \/ clockPassesMaxAge

XmtpSpec == Init /\ [][XmtpNext]_vars

----------------------------------------------------------------------------
(* Properties *)

\* the token has an email claim that is a string
HasEmail(jwt) ==
    jwt.parts = 3 /\ jwt.payload = "ok" /\ TruthyStr(jwt.email) /\ jwt.email # NonString

\* the request went through litService.signMessage
MessageEntry == req.entry \in {"signMessage", "wallet.signMessage"}

AllChecks == <<"inputs", "parse", "fetch", "key", "verify", "claims", "bind">>

\* the step succeeded in this run
Passed(step) == \E i \in 1..Len(trace) : trace[i] = step

\* the five checks of the executor, in the order they succeeded in this run
ChecksDone ==
    SelectSeq(trace, LAMBDA step : step \in {"parse", "fetch", "verify", "claims", "bind"})

\* C1: signMessage and signTransaction return a signature only when
\* keccak256(lowercase(email claim)) equals, case-insensitively, the
\* authorization id passed with the request; otherwise the call ends in an
\* error and the result carries no signature (both signing modes).
C1_NoSignatureOnIdMismatch ==
    svc.kind = "ok" =>
        /\ HasEmail(req.jwt)
        /\ idToLowerCase(keccak256(toLowerCase(req.jwt.email))) = idToLowerCase(req.authId)

\* a request whose credential is for another subject than the id passed was
\* answered with the unauthorized error and no signature
C1_Witness ==
    /\ pc = "done"
    /\ HasEmail(req.jwt)
    /\ computeAuthMethodId(req.jwt.email) # idToLowerCase(req.authId)
    /\ svc.kind = "error"
    /\ svc.detail = "Unauthorized: JWT email does not match wallet owner"
    /\ svc.signature = <<>>

\* C2: in the remote executor signEcdsa is invoked only after credential
\* parsing, key-set fetch, signature verification, claim validation and
\* authorization binding have each succeeded in that run, in this order.
C2_SignOnlyAfterAllChecks ==
    (req.mode = "remote" /\ (signCalls > 0 \/ pc = "lit_sign")) =>
        /\ ChecksDone = <<"parse", "fetch", "verify", "claims", "bind">>
        /\ Len(trace) >= Len(AllChecks)
        /\ SubSeq(trace, 1, Len(AllChecks)) = AllChecks

\* a run of the executor that signed
C2_Witness ==
    /\ req.mode = "remote"
    /\ signCalls = 1
    /\ sigShare.present
    /\ response.success

\* C3 as stated: a run of the executor that ends with a failure response has
\* not invoked signEcdsa at any point.
C3_FailureNeverInvokedSign ==
    (req.mode = "remote" /\ response.set /\ ~response.success) => signCalls = 0

\* C3 as amended: a run of the executor that ends with a failure response has
\* obtained no signature share; signEcdsa was either not invoked, or invoked
\* once after every check had passed and it threw.
C3_FailureHasNoShare ==
    (req.mode = "remote" /\ response.set /\ ~response.success) =>
        /\ ~sigShare.present
        /\ ~Passed("sign")
        /\ signCalls = 0 \/ (signCalls = 1 /\ trace = AllChecks)

\* a run that failed through the outer catch after signEcdsa threw
C3_Witness ==
    /\ req.mode = "remote"
    /\ response.set /\ ~response.success
    /\ response.error = "Lit Action error"
    /\ signCalls = 1
    /\ ~sigShare.present

\* C4: whenever a router procedure obtains a signature, the authorization id
\* the executor compared the credential against is the authMethodId stored
\* with the wallet (owner and FULL_ACCESS callers).
C4_RouterUsesStoredAuthMethodId ==
    (req.entry \in RouterEntries /\ Passed("bind") /\ svc.kind = "ok") =>
        req.authId = wallet.authMethodId

\* the remote executor's decision as one predicate: every section passes
RemoteAccepts(p, keys, now) ==
    /\ LitInputsError(p) = "ok"
    /\ LitParseError(p.jwt) = "ok"
    /\ p.jwt.header = "ok" /\ p.jwt.payload = "ok"
    /\ keys # <<>> /\ keys # FetchFailed
    /\ HeaderAlg(p.jwt) = "RS256"
    /\ SignatureValid(p.jwt, SelectKey(keys, p.jwt.kid))
    /\ LitClaimsError(p.jwt, now) = "ok"
    /\ p.jwt.email # NonString
    /\ LitAuthMethodIdMatches(p.jwt.email, p.authId)

\* C5: the hybrid check verifyJwtAndGetEmail accepts only what the remote
\* executor accepts for the same credential, id, time and issuer key set:
\* hybrid mode requests pkpSign only for inputs the executor would sign for.
C5_LocalAgreesWithRemote ==
    (req.mode = "local" /\ pc = "local_sign") => RemoteAccepts(req, IssuerJwks, Now)

\* C6: a credential whose exp is earlier than the current time is rejected and
\* never signed for; when the rest of the credential is valid the reported
\* reason is the expired one.
C6_ExpiredNeverSigned ==
    (req.jwt.parts = 3 /\ req.jwt.payload = "ok" /\ req.jwt.exp # Absent /\ req.jwt.exp < Now) =>
        /\ signCalls = 0
        /\ svc.kind # "ok"
        /\ (response.set /\ TruthyStr(req.jwt.email) /\ Passed("verify")) =>
               response.error = "JWT expired"

\* the validity window of the specification
InValidityWindow(jwt, now) ==
    /\ jwt.iat # Absent => (jwt.iat <= now /\ now - jwt.iat <= STALE)
    /\ jwt.nbf # Absent => jwt.nbf <= now
    /\ jwt.exp # Absent => now < jwt.exp

\* C7: the executor reaches authorization binding only for a credential inside
\* the validity window: iat <= now, nbf <= now when present, now < exp, and
\* now - iat <= 24 hours.
C7_BindingOnlyInsideWindow ==
    (req.mode = "remote" /\ pc = "lit_bind") => InValidityWindow(req.jwt, Now)

\* C8: a credential whose iat is more than 86400 s before the current time is
\* rejected by the executor as too old and never signed for, however far in
\* the future its exp lies.
C8_StaleNeverSigned ==
    (req.mode = "remote" /\ req.jwt.parts = 3 /\ req.jwt.payload = "ok"
       /\ req.jwt.iat # Absent /\ Now - req.jwt.iat > STALE) =>
        /\ signCalls = 0
        /\ svc.kind # "ok"
        /\ pc # "lit_bind"

\* C9: the executor signs only for a credential whose header declares the
\* algorithm RS256; a header with another alg value, or with no alg field,
\* is never signed for.
C9_OnlyDeclaredRS256 ==
    (req.mode = "remote" /\ signCalls > 0) => req.jwt.alg = "RS256"

\* the raw signature is one of the two complete shapes
CompleteRaw(sig) ==
    \/ /\ Len(strip0x(sig.signature)) = 2 * HexLen
       /\ sig.recoveryId \in {0, 1}
    \/ /\ sig.signature = <<>>
       /\ Len(strip0x(sig.r)) = HexLen /\ Len(strip0x(sig.s)) = HexLen
       /\ sig.recid \in {0, 1}

RawR(sig) == IF sig.signature # <<>> THEN SubSeq(strip0x(sig.signature), 1, HexLen) ELSE strip0x(sig.r)
RawS(sig) ==
    IF sig.signature # <<>> THEN SubSeq(strip0x(sig.signature), HexLen + 1, 2 * HexLen)
    ELSE strip0x(sig.s)
RawBit(sig) == IF sig.signature # <<>> THEN sig.recoveryId ELSE sig.recid

\* C10: every signature string signMessage returns, in either mode and for
\* either complete raw shape, is 0x followed by 65 bytes: r, s and one byte
\* equal to 27 + recoveryBit.
C10_MessageSignatureIs65Bytes ==
    (MessageEntry /\ svc.kind = "ok" /\ CompleteRaw(sigShare)) =>
        svc.signature = Prefix0x \o RawR(sigShare) \o RawS(sigShare)
                          \o (IF RawBit(sigShare) = 0 THEN <<"1", "b">> ELSE <<"1", "c">>)

\* signMessage / signTransaction has returned or thrown
ServiceEnded == svc.kind # "none"

\* C11: signTransaction serializes the envelope with
\* v = chainId*2 + 35 + recoveryBit, recoveryBit in {0,1} being the recovery
\* bit of the raw threshold signature, for every signature signWithPkp can
\* return in either mode: a complete raw signature always ends in a serialized
\* transaction, and a serialized transaction always carries that v.
C11_TxVIsEip155 ==
    req.entry \in TxEntries =>
        /\ svc.kind = "ok" =>
              /\ RawBit(sigShare) \in {0, 1}
              /\ svc.v = svc.chainId * 2 + 35 + RawBit(sigShare)
        /\ (ServiceEnded /\ CompleteRaw(sigShare)) => svc.kind = "ok"

\* C12: signature assembly fails with an error and returns no signature for
\* every raw result that is not one of the two complete shapes; a missing
\* recovery id or a concatenated signature of the wrong length is never
\* filled in.
C12_IncompleteRawIsAnError ==
    (req.mode = "remote" /\ ServiceEnded /\ sigShare.present /\ ~CompleteRaw(sigShare)) =>
        /\ svc.kind = "error"
        /\ svc.signature = <<>>

\* C13: for both complete raw shapes, the r, s and recovery bit that
\* signTransaction slices out of the string signWithLitAction assembled are
\* the r, s and recovery bit of the raw threshold signature.
C13_SlicesRecoverRawComponents ==
    (req.mode = "remote" /\ req.entry \in TxEntries /\ ServiceEnded /\ CompleteRaw(sigShare)) =>
        /\ svc.kind = "ok"
        /\ svc.r = Prefix0x \o RawR(sigShare)
        /\ svc.s = Prefix0x \o RawS(sigShare)
        /\ svc.v - (svc.chainId * 2 + 35) = RawBit(sigShare)

\* a transaction signed from the v7 shape with 0x-prefixed r and s
C13_Witness ==
    /\ req.mode = "remote" /\ req.entry \in TxEntries /\ svc.kind = "ok"
    /\ sigShare.r = Prefix0x \o RHex /\ sigShare.s = Prefix0x \o SHex /\ sigShare.recid = 0
    /\ svc.r = Prefix0x \o RHex /\ svc.s = Prefix0x \o SHex
    /\ svc.v = svc.chainId * 2 + 35

\* a transaction signed from the v8 shape with recovery bit 1 on chain 11155111
C13_ConcatReached ==
    /\ req.mode = "remote" /\ req.entry \in TxEntries /\ svc.kind = "ok"
    /\ sigShare.signature = Prefix0x \o RHex \o SHex /\ sigShare.recoveryId = 1
    /\ svc.chainId = 11155111 /\ svc.v = 22310258

AuthRejectionReasons ==
    {"JWT signature verification failed", "JWT expired", "JWT not yet valid", "JWT too old",
     "No email in JWT", "No email found in JWT",
     "Unauthorized: JWT email does not match wallet owner"}

\* the request was rejected for one of those reasons
AuthRejected ==
    svc.kind = "error" /\ (svc.detail \in AuthRejectionReasons \/ svc.error \in AuthRejectionReasons)

\* the issuer key endpoint or the signing network could not be reached
UpstreamFailed ==
    svc.kind = "error" /\ (jwks = FetchFailed \/ svc.error = "Lit network unavailable")

\* the text of the error the caller of a procedure reads
VisibleReason(o) == IF o.detail # "" THEN o.detail ELSE o.message

\* C18: a failure to reach the issuer key endpoint or the signing network
\* reaches the caller of signMessage / signTransaction, and of the procedures
\* built on them, with an error (message class, tRPC code) that no
\* authorization rejection is reported with (stated for the Lit Action mode,
\* the one USE_LIT_ACTION_SIGNING selects).
C18_UpstreamDistinctFromUnauthorized ==
    (req.mode = "remote" /\ UpstreamFailed) =>
        \A reason \in AuthRejectionReasons :
            /\ svc.error # LitActionFailure(reason).error
            /\ (pc = "done" /\ req.entry \in RouterEntries) =>
                  out.code # RouterError(LitActionFailure(reason)).code

\* C19: whatever credential or authorization check rejected the request, the
\* caller of wallet.signMessage, wallet.sendTransaction or
\* transactionProposal.approve gets the same unauthorized error, which does
\* not tell the check that failed (stated for the Lit Action mode).
C19_RejectionsAreGenericUnauthorized ==
    (req.mode = "remote" /\ pc = "done" /\ req.entry \in RouterEntries /\ AuthRejected) =>
        /\ out.code = "UNAUTHORIZED"
        /\ VisibleReason(out) \notin AuthRejectionReasons

\* the answers wallet.create gives when the mint step failed
MintFailureOutcomes ==
    {Uncaught(m) : m \in SdkErrors \cup {"No tokenId returned from mintWithEoa",
                                         "No publicKey returned from mintWithEoa"}}

\* C15: when addPermittedAddress fails after the mint succeeded, the caller of
\* wallet.create gets an answer that no mint failure gives and that is not the
\* plain internal error: it tells that the key-share set was minted and the
\* grant failed.
C15_GrantFailureIsPartial ==
    \A p \in Procs :
        (proc[p].op = "wallet.create" /\ proc[p].pc = "done"
           /\ proc[p].minted /\ proc[p].threwAt = "grant") =>
            /\ proc[p].out \notin MintFailureOutcomes
            /\ proc[p].out.code # "INTERNAL_SERVER_ERROR"

GrantsInProgress == {p \in Procs : proc[p].pc = "granting"}

\* C20: re-provisioning calls on one key-share set exclude each other: at most
\* one grant to the signing network is in progress at a time.
C20_OneGrantAtATime == Cardinality(GrantsInProgress) <= 1

\* the clients constructed whose connect() has not failed
LiveClients == {i \in 1..Len(clients) : clients[i] # "failed"}

\* C17: under any interleaving of concurrent first calls to getLitClient, one
\* with a failing connect() included, at most one client is constructed and
\* connected, and every caller that gets a client gets one whose connect() has
\* completed successfully.
C17_OneClientHandedOutConnected ==
    /\ Cardinality(LiveClients) <= 1
    /\ \A c \in Callers :
         (caller[c].pc = "done" /\ caller[c].error = "") => caller[c].gotState = "connected"

----------------------------------------------------------------------------
(* Structural check, key selection and the issuer endpoint *)

\* the token does not consist of exactly three non-empty segments (the empty
\* string is the missing-token case of the input validation, not this one)
StructurallyInvalid(jwt) ==
    /\ jwt.parts # 0
    /\ \/ jwt.parts # 3
       \/ jwt.header = "empty"
       \/ jwt.payload = "empty"
       \/ jwt.signedBy = "empty"

\* C25: a token string that is not exactly three non-empty dot-separated
\* segments is rejected at the structural check with the invalid-format
\* reason, before any decoding, key fetch or signature verification, and is
\* never signed for.
C25_MalformedRejectedAtStructuralCheck ==
    (req.mode = "remote" /\ Passed("inputs") /\ pc # "lit_parse" /\ StructurallyInvalid(req.jwt)) =>
        /\ response = Failure("Invalid JWT format")
        /\ ~Passed("parse")
        /\ jwks = NotFetched
        /\ signCalls = 0

\* the key the selection is stated to yield: the key whose kid is the
\* header's kid, else the first signature-capable key, else none
StatedKey(keys, kid) ==
    LET byKid == SelectSeq(keys, LAMBDA key : TruthyStr(kid) /\ key.kid = kid)
        forSig == SelectSeq(keys, LAMBDA key : key.use = "sig")
    IN IF byKid # <<>> THEN byKid[1]
       ELSE IF forSig # <<>> THEN forSig[1]
       ELSE NoKey

NoVerificationKeyReasons ==
    {"No keys found in JWKS response", "No suitable signing key found in JWKS"}

\* C26: the verification key is the issuer key whose kid equals the header's
\* kid when the header has one and a key matches; otherwise the first key of
\* the set with use = sig; when no such key exists the run fails with the
\* no-verification-key reason and does not sign.
C26_KeyByKidElseFirstSigKey ==
    (req.mode = "remote" /\ Passed("fetch") /\ pc # "lit_key" /\ req.jwt.header = "ok") =>
        IF StatedKey(jwks, req.jwt.kid) = NoKey
        THEN /\ response.set /\ response.error \in NoVerificationKeyReasons
             /\ signCalls = 0
        ELSE matchingKey = StatedKey(jwks, req.jwt.kid)

\* C28: the issuer endpoint the key set is fetched from is the one of the
\* configured dynamicEnvironmentId, whatever the unverified token's iss claim
\* says, the empty configured id included.
C28_EndpointFromConfigurationOnly ==
    (req.mode = "remote" /\ jwks # NotFetched) => LitEnvId(req) = req.dynamicEnvironmentId

\* C27: signWithLitAction returns a signature only when the executor's result
\* contains a response whose success field is true; a missing, empty or failed
\* response never yields a returned signature, whatever result.signatures holds.
C27_SignatureOnlyWithSuccessResponse ==
    (req.mode = "remote" /\ svc.kind = "ok") => (response.set /\ response.success)

----------------------------------------------------------------------------
(* The review of a proposal *)

\* the status changes of a proposal: approval, execution, rejection, expiry,
\* and the way back when execution fails
StatusMoves ==
    {<<"PENDING", "APPROVED">>, <<"APPROVED", "EXECUTED">>, <<"PENDING", "REJECTED">>,
     <<"PENDING", "EXPIRED">>, <<"APPROVED", "PENDING">>}

FinalStatuses == {"REJECTED", "EXECUTED", "EXPIRED"}

\* C22: under any interleaving of approve, reject and cancel the status of a
\* proposal moves only along PENDING -> APPROVED -> EXECUTED, PENDING ->
\* REJECTED, PENDING -> EXPIRED or APPROVED -> PENDING, and a proposal that is
\* REJECTED, EXECUTED or EXPIRED is never written again.
C22_StatusMovesOnlyAlongWorkflow ==
    [][/\ txProposal'.status # txProposal.status =>
            <<txProposal.status, txProposal'.status>> \in StatusMoves
       /\ txProposal.status \in FinalStatuses =>
            /\ txProposal'.status = txProposal.status
            /\ txProposal'.reviewerId = txProposal.reviewerId
            /\ txProposal'.txHash = txProposal.txHash]_vars

\* C29: under any interleaving of concurrent approve calls on one proposal,
\* the network is handed the proposal's transaction at most once.
C29_BroadcastAtMostOnce == txCount <= 1

\* the request is an approve whose try block threw and that has answered
ApproveFailed(r) ==
    /\ reviews[r].op = "approve"
    /\ reviews[r].pc = "done"
    /\ reviews[r].threwAt # ""

\* C30: after an approve call has failed (no other request under way) the
\* proposal is PENDING with reviewerId and reviewedAt cleared and none of its
\* transactions was broadcast, whichever step of approve failed.
C30_FailedApproveLeavesNothingBroadcast ==
    \A r \in Reviewers :
        (ApproveFailed(r) /\ \A o \in Reviewers \ {r} : NotEntered(o)) =>
            /\ txProposal.status = "PENDING"
            /\ txProposal.reviewerId = ""
            /\ txProposal.reviewedAt = ""
            /\ txCount = 0

\* C24: the number of cached XMTP clients never exceeds MAX_CACHED_CLIENTS
\* after any sequence of getXmtpClient, refreshXmtpClient and closeXmtpClient
\* calls over distinct wallet addresses.
C24_CacheWithinMaximum == Cardinality(clientCache) <= MAX_CACHED_CLIENTS

\* C23: acceptInvitation succeeds only for the user whose email is the
\* invitation's inviteeEmail, and an invitation becomes ACCEPTED only from
\* PENDING: one that is ACCEPTED, REJECTED or EXPIRED is never accepted, also
\* when two accepts run concurrently.
C23_OnlyPendingInvitationAccepted ==
    [][/\ \A p \in Procs :
            (/\ proc[p].pc = "markAccepted"
             /\ proc'[p].pc = "done"
             /\ proc'[p].out.kind = "ok") => proc[p].user = db.invitation.inviteeEmail
       /\ (db'.invitation.status = "ACCEPTED" /\ db.invitation.status # "ACCEPTED") =>
            db.invitation.status = "PENDING"]_vars

\* the request p, a wallet.sendTransaction, calls the signing service in this
\* step
CallsSigningService(p) ==
    /\ proc[p].pc = "chainParams"
    /\ proc'[p].pc # "chainParams"
    /\ proc'[p].threwAt # "getTransactionCount"

\* C21: wallet.signMessage and wallet.sendTransaction call the signing
\* service only when, at the time of the call, the caller is the wallet's
\* owner or holds the FULL_ACCESS role; a user whose role was downgraded or
\* revoked is not signed for.
C21_SigningOnlyForOwnerOrFullAccess ==
    [][\A p \in Procs : CallsSigningService(p) => CanSign(proc[p].user)]_vars

====
